---------------------------- MODULE Spec2Model ----------------------------
(***************************************************************************)
(* A model of the capture harness of aetheria-report-collector             *)
(* (src/capture_hard.py): the module top level and main() as a sequential  *)
(* program with a program counter, the page runtime it observes (the       *)
(* window.__CAPTURE__ buffer, the two storage areas, the request/response  *)
(* stream) as an environment that runs concurrently with it, and the       *)
(* wrappers of INJECT_JS as operators over one invocation.                 *)
(***************************************************************************)
EXTENDS Integers, Sequences, FiniteSets, TLC

(***************************************************************************)
(* Program constants (src/capture_hard.py).                                *)
(***************************************************************************)
Pulses == 8
PollIterations == 75

(***************************************************************************)
(* Bounds of the model.                                                    *)
(***************************************************************************)
\* how many things the page does during one session (a push into a channel
\* of the buffer, a storage write, a request, a response)
MaxPageEvents == 2

StorageKeys == {"k1", "k2"}

VARIABLES
    pc,              \* position of the controlling flow
    URL,             \* sys.argv[1], "" when absent
    exitCode,        \* process exit status, -1 while running
    raised,          \* the step whose exception is propagating, "none" otherwise
    playwright,      \* the sync_playwright() scope: "idle", "running", "stopped"
    browser,         \* "none", "open", "closed"
    ctx,             \* "none", "open", "closed"
    browserCloseCalls,
    ctxCloseCalls,
    tracing,         \* "off", "recording", "stopped"
    navigations,     \* number of page.goto calls issued
    navOutcome,      \* how the page.goto call ended: "none" until it does
    pulseI,          \* pulses done
    pollI,           \* polling iterations started
    broke,           \* the polling loop left through break
    CAPTURE,         \* window.__CAPTURE__ of the page: json, charts, canvasText
    localStorage,    \* keys present in the page's localStorage
    sessionStorage,  \* keys present in the page's sessionStorage
    nEvents,         \* page events so far
    req_log,
    json_payloads,
    responded,       \* the on_response calls so far, and the response of the last
    charts,
    injected_json,
    canvas_text,
    ls,
    ss,
    reads,           \* snapshot reads issued: canvasText, local, session
    merged_json,
    wi,              \* index of the next numbered artifact of the running loop
    attempted,       \* artifacts whose write was attempted
    written,         \* artifacts written
    summary,         \* the summary record written, NoSummary before
    captureIntact,   \* window.__CAPTURE__ is still the buffer of line 38
    echartsLayers,   \* wrapping layers on init of the library held by window.echarts
    instLayers,      \* per chart instance: wrapping layers on its setOption
    ChartLayers,     \* wrapping layers of the value held by window.Chart, -1 before
    xhr,             \* per XMLHttpRequest object: __url and its load listeners
    pending,         \* body decodes started by the fetch wrapper, not yet settled
    call,            \* the last invocation of a wrapped primitive, as observed
    hookCalls,       \* invocations so far
    fixture,         \* progress of the fixture pages: the page of the concrete
                     \* scenario, and the static page of a repeated run
    db,              \* the tables behind the REST interface of src/app.py
    save             \* per save_to_supabase request: position, payload, locals

ctlVars == <<pc, URL, exitCode, raised, playwright, browser, ctx,
             browserCloseCalls, ctxCloseCalls, tracing, navigations,
             navOutcome, pulseI, pollI, broke>>
hookVars == <<captureIntact, echartsLayers, instLayers, ChartLayers, xhr,
              pending, call, hookCalls>>
pageVars == <<CAPTURE, localStorage, sessionStorage, nEvents, hookVars, fixture>>
logVars == <<req_log, json_payloads, responded>>
heldVars == <<charts, injected_json, canvas_text, ls, ss, reads>>
outVars == <<merged_json, wi, attempted, written, summary>>
appVars == <<db, save>>
vars == <<ctlVars, pageVars, logVars, heldVars, outVars, appVars>>

\* how many save_to_supabase requests the service receives
MaxSaves == 2

Requests == 1 .. MaxSaves

\* the tables, empty; uniquePhone / uniquePair: whether the schema has a
\* unique constraint on customer.phone_e164 / on machine_scan(url_id, url_sign)
EmptyDb(uniquePhone, uniquePair) ==
    [customers |-> <<>>, sessions |-> <<>>, scans |-> <<>>,
     uniquePhone |-> uniquePhone, uniquePair |-> uniquePair]

NoData == [url_id |-> "", url_sign |-> "", phone |-> <<>>, name |-> ""]

NoResponse ==
    [kind |-> "none", status |-> 0, stage |-> "", duplicate |-> FALSE,
     scan_id |-> 0, session_id |-> 0]

\* a request that has not arrived
IdleSave ==
    [pc |-> "idle", data |-> NoData, phone_e164 |-> <<>>, customer_id |-> 0,
     session_id |-> 0, out |-> NoResponse]

NoSummary == [written |-> FALSE]

\* no response has reached on_response
NoneResponded ==
    [n |-> 0, url |-> "", ctJson |-> FALSE, body |-> "", decoded |-> "fail",
     available |-> FALSE]

\* the chart instances and the XMLHttpRequest objects of the page
Instances == {"chart1"}
XhrIds == {"xhr1", "xhr2"}

NoCall == [hook |-> "none"]

\* the page runtime right after INJECT_JS ran in a fresh document
HookInit ==
    /\ captureIntact = TRUE
    /\ echartsLayers = 0
    /\ instLayers = [i \in Instances |-> 0]
    /\ ChartLayers = -1
    /\ xhr = [r \in XhrIds |-> [url |-> "", listeners |-> 0, opened |-> "",
                                state |-> "unsent"]]
    /\ pending = <<>>
    /\ call = NoCall
    /\ hookCalls = 0
    /\ fixture = [fetch |-> "idle", parsed |-> FALSE, requestSeen |-> FALSE,
                  responseSeen |-> FALSE,
                  run |-> 1, first |-> NoSummary, loaded |-> FALSE,
                  chosen |-> FALSE, script |-> [s \in SUBSET StorageKeys |-> "k1"]]

EmptyCapture ==
    [json |-> <<>>, charts |-> <<>>, canvasText |-> <<>>,
     storage |-> [local |-> [k \in StorageKeys |-> "absent"],
                  session |-> [k \in StorageKeys |-> "absent"]]]

\* the harness before its first statement
HarnessInit ==
    /\ pc = "start"
    /\ URL \in {"", "http://report"}
    /\ exitCode = -1
    /\ raised = "none"
    /\ playwright = "idle"
    /\ browser = "none"
    /\ ctx = "none"
    /\ browserCloseCalls = 0
    /\ ctxCloseCalls = 0
    /\ tracing = "off"
    /\ navigations = 0
    /\ navOutcome = "none"
    /\ pulseI = 0
    /\ pollI = 0
    /\ broke = FALSE
    /\ CAPTURE = EmptyCapture
    /\ localStorage = {}
    /\ sessionStorage = {}
    /\ nEvents = 0
    /\ req_log = <<>>
    /\ json_payloads = <<>>
    /\ responded = NoneResponded
    /\ charts = <<>>
    /\ injected_json = <<>>
    /\ canvas_text = <<>>
    /\ ls = {}
    /\ ss = {}
    /\ reads = [canvasText |-> 0, local |-> 0, session |-> 0]
    /\ merged_json = <<>>
    /\ wi = 0
    /\ attempted = {}
    /\ written = {}
    /\ summary = NoSummary
    /\ HookInit

Init ==
    /\ HarnessInit
    /\ db = EmptyDb(TRUE, TRUE)
    /\ save = [r \in Requests |-> IdleSave]


(***************************************************************************)
(* Exceptions.  An exception that no try of main() catches leaves the      *)
(* with block of sync_playwright(): its exit runs, then the process ends   *)
(* with the traceback.                                                     *)
(***************************************************************************)
Raise(step) ==
    /\ pc' = "with_exit"
    /\ raised' = step

(***************************************************************************)
(* Module top level: the URL argument, then the output directory.          *)
(***************************************************************************)
\* a top level without the argument test
Start_NoUsageCheck ==
    /\ pc = "start"
    /\ pc' = "launch"
    /\ exitCode' = exitCode
    /\ UNCHANGED <<URL, raised, playwright, browser, ctx, browserCloseCalls,
                   ctxCloseCalls, tracing, navigations, navOutcome, pulseI, pollI, broke>>
    /\ UNCHANGED <<pageVars, logVars, heldVars, outVars>>
    /\ UNCHANGED appVars

Start ==
    /\ pc = "start"
    /\ IF URL = ""
       THEN /\ pc' = "exited"
            /\ exitCode' = 1
       ELSE /\ pc' = "launch"
            /\ exitCode' = exitCode
    /\ UNCHANGED <<URL, raised, playwright, browser, ctx, browserCloseCalls,
                   ctxCloseCalls, tracing, navigations, navOutcome, pulseI, pollI, broke>>
    /\ UNCHANGED <<pageVars, logVars, heldVars, outVars>>
    /\ UNCHANGED appVars

(***************************************************************************)
(* main(): session acquisition.                                            *)
(***************************************************************************)
LaunchBrowser ==
    /\ pc = "launch"
    /\ playwright' = "running"
    /\ \/ /\ browser' = "open"
          /\ pc' = "launch_ctx"
          /\ raised' = raised
       \/ /\ browser' = browser
          /\ Raise("launch")
    /\ UNCHANGED <<URL, exitCode, ctx, browserCloseCalls, ctxCloseCalls,
                   tracing, navigations, navOutcome, pulseI, pollI, broke>>
    /\ UNCHANGED <<pageVars, logVars, heldVars, outVars>>
    /\ UNCHANGED appVars

LaunchContext ==
    /\ pc = "launch_ctx"
    /\ \/ /\ ctx' = "open"
          /\ pc' = "init_script"
          /\ raised' = raised
       \/ /\ ctx' = ctx
          /\ Raise("launch_persistent_context")
    /\ UNCHANGED <<URL, exitCode, playwright, browser, browserCloseCalls,
                   ctxCloseCalls, tracing, navigations, navOutcome, pulseI, pollI, broke>>
    /\ UNCHANGED <<pageVars, logVars, heldVars, outVars>>
    /\ UNCHANGED appVars

AddInitScript ==
    /\ pc = "init_script"
    /\ \/ /\ pc' = "trace_start"
          /\ raised' = raised
       \/ Raise("add_init_script")
    /\ UNCHANGED <<URL, exitCode, playwright, browser, ctx, browserCloseCalls,
                   ctxCloseCalls, tracing, navigations, navOutcome, pulseI, pollI, broke>>
    /\ UNCHANGED <<pageVars, logVars, heldVars, outVars>>
    /\ UNCHANGED appVars

TracingStart ==
    /\ pc = "trace_start"
    /\ \/ /\ tracing' = "recording"
          /\ pc' = "new_page"
          /\ raised' = raised
       \/ /\ tracing' = tracing
          /\ Raise("tracing.start")
    /\ UNCHANGED <<URL, exitCode, playwright, browser, ctx, browserCloseCalls,
                   ctxCloseCalls, navigations, navOutcome, pulseI, pollI, broke>>
    /\ UNCHANGED <<pageVars, logVars, heldVars, outVars>>
    /\ UNCHANGED appVars

\* ctx.new_page(), then the two page.on registrations and the two empty logs
NewPage ==
    /\ pc = "new_page"
    /\ \/ /\ pc' = "goto"
          /\ raised' = raised
       \/ Raise("new_page")
    /\ UNCHANGED <<URL, exitCode, playwright, browser, ctx, browserCloseCalls,
                   ctxCloseCalls, tracing, navigations, navOutcome, pulseI, pollI, broke>>
    /\ UNCHANGED <<pageVars, logVars, heldVars, outVars>>
    /\ UNCHANGED appVars

(***************************************************************************)
(* Navigation: page.goto(URL, wait_until="networkidle", timeout=120_000)   *)
(* is issued, the page loads while the call waits, and the call returns or *)
(* raises (a TimeoutError after the 120 s, or another error).  The call is *)
(* in no try.                                                              *)
(***************************************************************************)
GotoOutcomes == {"ok", "timeout", "error"}

GotoIssue ==
    /\ pc = "goto"
    /\ navigations' = navigations + 1
    /\ pc' = "goto_wait"
    /\ UNCHANGED <<URL, exitCode, raised, playwright, browser, ctx,
                   browserCloseCalls, ctxCloseCalls, tracing, navOutcome,
                   pulseI, pollI, broke>>
    /\ UNCHANGED <<pageVars, logVars, heldVars, outVars>>
    /\ UNCHANGED appVars

\* where control goes when page.goto ended with `outcome`: the call is in no
\* try, so anything but a return propagates
GotoNext(outcome) ==
    IF outcome = "ok"
    THEN /\ pc' = "pulse"
         /\ raised' = raised
    ELSE Raise("goto:" \o outcome)

GotoReturn ==
    /\ pc = "goto_wait"
    /\ \E outcome \in GotoOutcomes :
         /\ navOutcome' = outcome
         /\ GotoNext(outcome)
    /\ UNCHANGED <<URL, exitCode, playwright, browser, ctx, browserCloseCalls,
                   ctxCloseCalls, tracing, navigations, pulseI, pollI, broke>>
    /\ UNCHANGED <<pageVars, logVars, heldVars, outVars>>
    /\ UNCHANGED appVars

(***************************************************************************)
(* The pulses: for _ in range(8), a sleep, then scroll, wait and resize in *)
(* one try whose except passes.  Whether the three calls return or one of  *)
(* them raises, the iteration ends and the next one starts.                *)
(***************************************************************************)
Pulse ==
    /\ pc = "pulse"
    /\ \E evaluateRaises \in BOOLEAN :
         /\ pulseI' = pulseI + 1
         /\ pc' = IF pulseI + 1 = Pulses THEN "poll_charts" ELSE "pulse"
    /\ UNCHANGED <<URL, exitCode, raised, playwright, browser, ctx,
                   browserCloseCalls, ctxCloseCalls, tracing, navigations,
                   navOutcome, pollI, broke>>
    /\ UNCHANGED <<pageVars, logVars, heldVars, outVars>>
    /\ UNCHANGED appVars

(***************************************************************************)
(* The polling loop: for _ in range(75), with both reads and the break in  *)
(* one try whose except passes, then a sleep of one second.                *)
(*   charts = page.evaluate(... .charts ...) or []                        *)
(*   injected_json = page.evaluate(... .json ...) or []                   *)
(*   if charts or injected_json: break                                     *)
(* A read that raises leaves the rest of the try undone: the variable it   *)
(* would have assigned keeps its value, the break test is skipped.         *)
(***************************************************************************)
\* a loop that runs one iteration too many
AfterIteration_OneMore(i) ==
    IF i <= PollIterations THEN "poll_charts" ELSE "snap_canvas"

\* where control goes after iteration i (1-based) ended without break
AfterIteration(i) ==
    IF i < PollIterations THEN "poll_charts" ELSE "snap_canvas"

\* what page.evaluate("window.__CAPTURE__ ? window.__CAPTURE__.<channel> : []")
\* or [] returns
ReadChannel(channel) == IF captureIntact THEN CAPTURE[channel] ELSE <<>>

\* the break test on the two values read in one iteration
BreakTest(c, j) == c # <<>> \/ j # <<>>

PollCharts ==
    /\ pc = "poll_charts"
    /\ pollI' = pollI + 1
    /\ \/ /\ charts' = ReadChannel("charts")
          /\ pc' = "poll_json"
       \/ /\ charts' = charts
          /\ pc' = AfterIteration(pollI + 1)
    /\ UNCHANGED <<URL, exitCode, raised, playwright, browser, ctx,
                   browserCloseCalls, ctxCloseCalls, tracing, navigations,
                   navOutcome, pulseI, broke>>
    /\ UNCHANGED <<injected_json, canvas_text, ls, ss, reads>>
    /\ UNCHANGED <<pageVars, logVars, outVars>>
    /\ UNCHANGED appVars

PollJson ==
    /\ pc = "poll_json"
    /\ \/ /\ injected_json' = ReadChannel("json")
          /\ IF BreakTest(charts, ReadChannel("json"))
             THEN /\ broke' = TRUE
                  /\ pc' = "snap_canvas"
             ELSE /\ broke' = broke
                  /\ pc' = AfterIteration(pollI)
       \/ /\ injected_json' = injected_json
          /\ broke' = broke
          /\ pc' = AfterIteration(pollI)
    /\ UNCHANGED <<URL, exitCode, raised, playwright, browser, ctx,
                   browserCloseCalls, ctxCloseCalls, tracing, navigations,
                   navOutcome, pulseI, pollI>>
    /\ UNCHANGED <<charts, canvas_text, ls, ss, reads>>
    /\ UNCHANGED <<pageVars, logVars, outVars>>
    /\ UNCHANGED appVars

(***************************************************************************)
(* The snapshot reads, each in a try of its own: canvasText, then the      *)
(* page's localStorage and sessionStorage.  A read that raises leaves the  *)
(* empty value.                                                            *)
(***************************************************************************)
\* a snapshot read outside any try: its exception leaves main()
SnapNext_Propagates(raises, next) == IF raises THEN "with_exit" ELSE next

\* where control goes after a snapshot read, whether it returned or raised
SnapNext(raises, next) == next

SnapCanvas ==
    /\ pc = "snap_canvas"
    /\ reads' = [reads EXCEPT !.canvasText = @ + 1]
    /\ \E raises \in BOOLEAN :
         /\ canvas_text' = IF raises THEN <<>> ELSE ReadChannel("canvasText")
         /\ pc' = SnapNext(raises, "snap_ls")
    /\ UNCHANGED <<URL, exitCode, raised, playwright, browser, ctx,
                   browserCloseCalls, ctxCloseCalls, tracing, navigations,
                   navOutcome, pulseI, pollI, broke>>
    /\ UNCHANGED <<charts, injected_json, ls, ss>>
    /\ UNCHANGED <<pageVars, logVars, outVars>>
    /\ UNCHANGED appVars

SnapLocal ==
    /\ pc = "snap_ls"
    /\ reads' = [reads EXCEPT !.local = @ + 1]
    /\ \E raises \in BOOLEAN :
         /\ ls' = IF raises THEN {} ELSE localStorage
         /\ pc' = SnapNext(raises, "snap_ss")
    /\ UNCHANGED <<URL, exitCode, raised, playwright, browser, ctx,
                   browserCloseCalls, ctxCloseCalls, tracing, navigations,
                   navOutcome, pulseI, pollI, broke>>
    /\ UNCHANGED <<charts, injected_json, canvas_text, ss>>
    /\ UNCHANGED <<pageVars, logVars, outVars>>
    /\ UNCHANGED appVars

SnapSession ==
    /\ pc = "snap_ss"
    /\ reads' = [reads EXCEPT !.session = @ + 1]
    /\ \E raises \in BOOLEAN :
         /\ ss' = IF raises THEN {} ELSE sessionStorage
         /\ pc' = SnapNext(raises, "merge")
    /\ UNCHANGED <<URL, exitCode, raised, playwright, browser, ctx,
                   browserCloseCalls, ctxCloseCalls, tracing, navigations,
                   navOutcome, pulseI, pollI, broke>>
    /\ UNCHANGED <<charts, injected_json, canvas_text, ls>>
    /\ UNCHANGED <<pageVars, logVars, outVars>>
    /\ UNCHANGED appVars

(***************************************************************************)
(* Writing the outputs.  An artifact is named by its kind and, for the     *)
(* numbered files xhr-NN.json and chart-NN.json, its index (0 otherwise).  *)
(***************************************************************************)
Artifact(kind, i) == <<kind, i>>

ctlRest == <<URL, exitCode, playwright, browser, ctx, browserCloseCalls,
             ctxCloseCalls, navigations, navOutcome, pulseI, pollI, broke>>

\* a write_text outside any try: it returns, or its exception propagates
PlainWrite(a, ok, next) ==
    /\ attempted' = attempted \cup {a}
    /\ written' = IF ok THEN written \cup {a} ELSE written
    /\ IF ok
       THEN /\ pc' = next
            /\ raised' = raised
       ELSE Raise("write:" \o a[1])

\* a write inside try/except Exception: pass
GuardedWrite(a, ok, next) ==
    /\ attempted' = attempted \cup {a}
    /\ written' = IF ok THEN written \cup {a} ELSE written
    /\ pc' = next
    /\ raised' = raised

\* duration, then merged_json = json_payloads + injected_json
\* a merge that drops an injected entry whose body the network log holds
Merge_Deduplicating ==
    /\ pc = "merge"
    /\ merged_json' =
         json_payloads
           \o SelectSeq(injected_json,
                        LAMBDA e : \A i \in DOMAIN json_payloads :
                                       json_payloads[i].body # e.body)
    /\ wi' = 0
    /\ pc' = "write_json"
    /\ UNCHANGED <<raised, tracing, attempted, written, summary>>
    /\ UNCHANGED <<ctlRest, pageVars, logVars, heldVars>>
    /\ UNCHANGED appVars

Merge ==
    /\ pc = "merge"
    /\ merged_json' = json_payloads \o injected_json
    /\ wi' = 0
    /\ pc' = "write_json"
    /\ UNCHANGED <<raised, tracing, attempted, written, summary>>
    /\ UNCHANGED <<ctlRest, pageVars, logVars, heldVars>>
    /\ UNCHANGED appVars

\* for i, payload in enumerate(merged_json): write xhr-i
WriteJson ==
    /\ pc = "write_json"
    /\ IF wi < Len(merged_json)
       THEN /\ \E ok \in BOOLEAN :
                 PlainWrite(Artifact("xhr", wi), ok, "write_json")
            /\ wi' = wi + 1
       ELSE /\ pc' = "write_chart"
            /\ wi' = 0
            /\ UNCHANGED <<raised, attempted, written>>
    /\ UNCHANGED <<merged_json, tracing, summary>>
    /\ UNCHANGED <<ctlRest, pageVars, logVars, heldVars>>
    /\ UNCHANGED appVars

\* for i, payload in enumerate(charts): write chart-i
WriteChart ==
    /\ pc = "write_chart"
    /\ IF wi < Len(charts)
       THEN /\ \E ok \in BOOLEAN :
                 PlainWrite(Artifact("chart", wi), ok, "write_chart")
            /\ wi' = wi + 1
       ELSE /\ pc' = "write_canvas"
            /\ wi' = 0
            /\ UNCHANGED <<raised, attempted, written>>
    /\ UNCHANGED <<merged_json, tracing, summary>>
    /\ UNCHANGED <<ctlRest, pageVars, logVars, heldVars>>
    /\ UNCHANGED appVars

\* if canvas_text: write canvas-text.json
WriteCanvas ==
    /\ pc = "write_canvas"
    /\ IF canvas_text # <<>>
       THEN \E ok \in BOOLEAN :
              PlainWrite(Artifact("canvas-text", 0), ok, "write_ls")
       ELSE /\ pc' = "write_ls"
            /\ UNCHANGED <<raised, attempted, written>>
    /\ UNCHANGED <<merged_json, wi, tracing, summary>>
    /\ UNCHANGED <<ctlRest, pageVars, logVars, heldVars>>
    /\ UNCHANGED appVars

WriteLocal ==
    /\ pc = "write_ls"
    /\ \E ok \in BOOLEAN :
         PlainWrite(Artifact("storage-local", 0), ok, "write_ss")
    /\ UNCHANGED <<merged_json, wi, tracing, summary>>
    /\ UNCHANGED <<ctlRest, pageVars, logVars, heldVars>>
    /\ UNCHANGED appVars

WriteSession ==
    /\ pc = "write_ss"
    /\ \E ok \in BOOLEAN :
         PlainWrite(Artifact("storage-session", 0), ok, "write_html")
    /\ UNCHANGED <<merged_json, wi, tracing, summary>>
    /\ UNCHANGED <<ctlRest, pageVars, logVars, heldVars>>
    /\ UNCHANGED appVars

\* try: write page.html from page.content()  except Exception: pass
WriteHtml ==
    /\ pc = "write_html"
    /\ \E ok \in BOOLEAN :
         GuardedWrite(Artifact("page", 0), ok, "write_shot")
    /\ UNCHANGED <<merged_json, wi, tracing, summary>>
    /\ UNCHANGED <<ctlRest, pageVars, logVars, heldVars>>
    /\ UNCHANGED appVars

\* try: page.screenshot(path=screenshot.png)  except Exception: pass
WriteShot ==
    /\ pc = "write_shot"
    /\ \E ok \in BOOLEAN :
         GuardedWrite(Artifact("screenshot", 0), ok, "trace_stop")
    /\ UNCHANGED <<merged_json, wi, tracing, summary>>
    /\ UNCHANGED <<ctlRest, pageVars, logVars, heldVars>>
    /\ UNCHANGED appVars

\* ctx.tracing.stop(path=trace.zip), in no try
TracingStop ==
    /\ pc = "trace_stop"
    /\ \E ok \in BOOLEAN :
         /\ PlainWrite(Artifact("trace", 0), ok, "write_summary")
         /\ tracing' = IF ok THEN "stopped" ELSE tracing
    /\ UNCHANGED <<merged_json, wi, summary>>
    /\ UNCHANGED <<ctlRest, pageVars, logVars, heldVars>>
    /\ UNCHANGED appVars

\* a summary that counts the network log as it is when the summary is built
Summary_CountsLog ==
    [written |-> TRUE,
     url |-> URL,
     timestamp |-> "utcnow",
     duration_sec |-> "duration",
     counts |-> [req |-> Len(req_log),
                 json |-> Len(json_payloads) + Len(injected_json),
                 chartConfigs |-> Len(charts),
                 canvasText |-> Len(canvas_text),
                 localStorageKeys |-> Cardinality(ls),
                 sessionStorageKeys |-> Cardinality(ss)]]

\* the summary record of main()
Summary ==
    [written |-> TRUE,
     url |-> URL,
     timestamp |-> "utcnow",
     duration_sec |-> "duration",
     counts |-> [req |-> Len(req_log),
                 json |-> Len(merged_json),
                 chartConfigs |-> Len(charts),
                 canvasText |-> Len(canvas_text),
                 localStorageKeys |-> Cardinality(ls),
                 sessionStorageKeys |-> Cardinality(ss)]]

WriteSummary ==
    /\ pc = "write_summary"
    /\ \E ok \in BOOLEAN :
         /\ PlainWrite(Artifact("summary", 0), ok, "ctx_close")
         /\ summary' = IF ok THEN Summary ELSE summary
    /\ UNCHANGED <<merged_json, wi, tracing>>
    /\ UNCHANGED <<ctlRest, pageVars, logVars, heldVars>>
    /\ UNCHANGED appVars

(***************************************************************************)
(* Release: ctx.close() and browser.close() are the last two statements of *)
(* the with block; no try/finally surrounds the body.  Leaving the with    *)
(* block, normally or by an exception, stops the Playwright driver.        *)
(***************************************************************************)
CtxClose ==
    /\ pc = "ctx_close"
    /\ ctxCloseCalls' = ctxCloseCalls + 1
    /\ \/ /\ ctx' = "closed"
          /\ pc' = "browser_close"
          /\ raised' = raised
       \/ /\ ctx' = ctx
          /\ Raise("ctx.close")
    /\ UNCHANGED <<URL, exitCode, playwright, browser, browserCloseCalls,
                   tracing, navigations, navOutcome, pulseI, pollI, broke>>
    /\ UNCHANGED <<pageVars, logVars, heldVars, outVars>>
    /\ UNCHANGED appVars

BrowserClose ==
    /\ pc = "browser_close"
    /\ browserCloseCalls' = browserCloseCalls + 1
    /\ \/ /\ browser' = "closed"
          /\ pc' = "with_exit"
          /\ raised' = raised
       \/ /\ browser' = browser
          /\ Raise("browser.close")
    /\ UNCHANGED <<URL, exitCode, playwright, ctx, ctxCloseCalls,
                   tracing, navigations, navOutcome, pulseI, pollI, broke>>
    /\ UNCHANGED <<pageVars, logVars, heldVars, outVars>>
    /\ UNCHANGED appVars

WithExit ==
    /\ pc = "with_exit"
    /\ playwright' = "stopped"
    /\ pc' = "exited"
    /\ exitCode' = IF raised = "none" THEN 0 ELSE 1
    /\ UNCHANGED <<URL, raised, browser, ctx, browserCloseCalls, ctxCloseCalls,
                   tracing, navigations, navOutcome, pulseI, pollI, broke>>
    /\ UNCHANGED <<pageVars, logVars, heldVars, outVars>>
    /\ UNCHANGED appVars

\* try { window.__CAPTURE__.<channel>.push(entry) } catch(e){}: the push
\* raises, and is passed over, when the page replaced the buffer
Push(cap, intact, channel, entry) ==
    IF intact THEN [cap EXCEPT ![channel] = Append(@, entry)] ELSE cap

(***************************************************************************)
(* The wrappers of INJECT_JS, one invocation at a time.  An invocation is  *)
(* observed from outside as: the arguments the caller passed, the calls    *)
(* the wrapper made to the original primitive (the argument list of each), *)
(* what the original did (returned a value or threw; for fetch, resolved   *)
(* or rejected), and what the caller got back.                             *)
(***************************************************************************)
\* how many wrapped primitives the page invokes
MaxHookCalls == 3

\* the stack frames the engine has left when the page assigns window.Chart
\* or constructs a chart (thousands in a browser)
StackFrames == 3

\* how many times the page assigns window.echarts
MaxAssignments == 2

Ret(v) == [kind |-> "return", val |-> v]
Throw(e) == [kind |-> "throw", val |-> e]

\* argument lists of the caller, opaque
HookArgs == {"args1", "args2"}

Observed(hook, args, calls, orig, result) ==
    [hook |-> hook, args |-> args, calls |-> calls, orig |-> orig,
     result |-> result]

(***************************************************************************)
(* Texts, by what the wrappers observe of them: whether they contain "{",  *)
(* whether they contain "}", whether some "{" comes before some "}", and   *)
(* what the built-in JSON.parse makes of them.                             *)
(***************************************************************************)
Text(name, open, close, ordered, parse) ==
    [name |-> name, open |-> open, close |-> close, ordered |-> ordered,
     parse |-> parse]

TObject == Text("{\"b\":2}", TRUE, TRUE, TRUE, "object")
TArray == Text("[1]", FALSE, FALSE, FALSE, "array")
TNumber == Text("7", FALSE, FALSE, FALSE, "scalar")
TNull == Text("null", FALSE, FALSE, FALSE, "null")
TBraces == Text("{oops}", TRUE, TRUE, TRUE, "fail")
TPlain == Text("hello", FALSE, FALSE, FALSE, "fail")
TObjectA == Text("{\"a\":1}", TRUE, TRUE, TRUE, "object")
\* the JSON string "}{": both braces, no "{" before a "}"
TQuoted == Text("\"}{\"", TRUE, TRUE, FALSE, "scalar")

Texts == {TObject, TArray, TNumber, TNull, TBraces, TPlain}

\* the built-in JSON.parse
OrigParse(t) ==
    IF t.parse = "fail"
    THEN Throw("SyntaxError")
    ELSE Ret([type |-> t.parse, of |-> t.name])

\* out && typeof out === 'object'
ObjectShaped(v) == v.type \in {"object", "array"}

(***************************************************************************)
(* JSON.parse = function(s, reviver): the original is called first,        *)
(* outside the try; an object-shaped result is pushed; out is returned.    *)
(***************************************************************************)
JsonParseHook(cap, intact, t, reviver) ==
    LET out == OrigParse(t) IN
    [cap |-> IF out.kind = "return" /\ ObjectShaped(out.val)
             THEN Push(cap, intact, "json",
                       [src |-> "JSON.parse", url |-> "inline", body |-> out.val])
             ELSE cap,
     calls |-> << <<t, reviver>> >>,
     orig |-> out,
     result |-> out]

(***************************************************************************)
(* window.fetch = async function(...args): the original is awaited outside *)
(* the try; on a response a clone is handed to json() or text(), whose     *)
(* then-callback pushes later; res is returned.  The caller's promise      *)
(* fulfils with what the original fulfilled with ("return") or rejects     *)
(* with what it rejected with ("throw").                                   *)
(***************************************************************************)
\* what the page fetches; a response carries the URL it was fetched from
FetchUrls == {"/api/data", "/api/more"}

FetchResponses ==
    [url : FetchUrls, ctJson : BOOLEAN, body : {TObject, TBraces}]

\* a wrapper that tests the content-type the wrong way round
FetchHook_Inverted(pend, args, orig) ==
    [pending |-> IF orig.kind = "return"
                 THEN Append(pend, [decode |-> IF orig.val.ctJson THEN "text" ELSE "json",
                                    res |-> orig.val])
                 ELSE pend,
     calls |-> <<args>>,
     orig |-> orig,
     result |-> orig,
     bodyUsed |-> FALSE]

\* bodyUsed: whether the body of res itself was read (it is the clone's)
FetchHook(pend, args, orig) ==
    [pending |-> IF orig.kind = "return"
                 THEN Append(pend, [decode |-> IF orig.val.ctJson THEN "json" ELSE "text",
                                    res |-> orig.val])
                 ELSE pend,
     calls |-> <<args>>,
     orig |-> orig,
     result |-> orig,
     bodyUsed |-> FALSE]

\* the then-callback of one started decode
FetchSettled(cap, intact, task) ==
    LET res == task.res
        txt == res.body IN
    IF task.decode = "json"
    THEN \* cloned.json() rejects on an undecodable body: .catch(()=>{})
         IF txt.parse = "fail"
         THEN cap
         ELSE Push(cap, intact, "json",
                   [src |-> "fetch", url |-> res.url, body |-> OrigParse(txt).val])
    ELSE IF txt.name # "" /\ txt.open /\ txt.close
         THEN LET p == JsonParseHook(cap, intact, txt, "undefined") IN
              IF p.result.kind = "return"
              THEN Push(p.cap, intact, "json",
                        [src |-> "fetch-text", url |-> res.url, body |-> p.result.val])
              ELSE p.cap
         ELSE cap

(***************************************************************************)
(* XMLHttpRequest.prototype.open / send: open notes args[1] in this.__url, *)
(* send adds a load listener; both then apply the original.  The listener  *)
(* decodes responseText through JSON.parse, which is the wrapper above.    *)
(***************************************************************************)
XhrUrls == {"/api/x", "/api/y"}

XhrOpenHook(x, r, args, orig) ==
    [xhr |-> [x EXCEPT ![r].url = args[2]],
     calls |-> <<args>>,
     orig |-> orig,
     result |-> orig]

XhrSendHook(x, r, args, orig) ==
    [xhr |-> [x EXCEPT ![r].listeners = @ + 1],
     calls |-> <<args>>,
     orig |-> orig,
     result |-> orig]

XhrResponses ==
    [ctJson : BOOLEAN, text : {TObject, TBraces, TQuoted}, readable : BOOLEAN]

\* one run of the load listener; reading responseText raises when the
\* request has a responseType other than '' or 'text'
XhrListener(cap, intact, url, resp) ==
    IF ~resp.readable
    THEN cap
    ELSE IF resp.ctJson \/ resp.text.ordered
         THEN LET p == JsonParseHook(cap, intact, resp.text, "undefined") IN
              IF p.result.kind = "return"
              THEN Push(p.cap, intact, "json",
                        [src |-> IF resp.ctJson THEN "xhr" ELSE "xhr-text",
                         url |-> url, body |-> p.result.val])
              ELSE p.cap
         ELSE cap

RECURSIVE XhrListeners(_, _, _, _, _)
XhrListeners(cap, intact, url, resp, n) ==
    IF n = 0
    THEN cap
    ELSE XhrListeners(XhrListener(cap, intact, url, resp), intact, url, resp, n - 1)

(***************************************************************************)
(* window.echarts: the setter keeps the library and replaces its init by a *)
(* wrapper, once per assignment.  The init wrapper applies the init it     *)
(* replaced, then replaces setOption of the instance it got, outside any   *)
(* try, and returns the instance.  The setOption wrapper pushes, then      *)
(* calls the setOption it replaced.                                        *)
(***************************************************************************)
\* init through `layers` wrappers; orig is what the library's own init does
EchartsInitHook(il, layers, args, orig) ==
    IF orig.kind = "throw"
    THEN [instLayers |-> il, calls |-> <<args>>, orig |-> orig, result |-> orig]
    ELSE IF orig.val \notin Instances
         THEN \* inst.setOption of undefined: a TypeError of the wrapper
              [instLayers |-> il, calls |-> <<args>>, orig |-> orig,
               result |-> Throw("TypeError")]
         ELSE [instLayers |-> [il EXCEPT ![orig.val] = @ + layers],
               calls |-> <<args>>, orig |-> orig, result |-> orig]

RECURSIVE PushTimes(_, _, _, _, _)
PushTimes(cap, intact, channel, entry, n) ==
    IF n = 0
    THEN cap
    ELSE PushTimes(Push(cap, intact, channel, entry), intact, channel, entry, n - 1)

\* setOption through `layers` wrappers, each pushing before it delegates
SetOptionHook(cap, intact, layers, args, orig) ==
    [cap |-> PushTimes(cap, intact, "charts", [lib |-> "echarts", opts |-> args],
                       layers),
     calls |-> <<args>>,
     orig |-> orig,
     result |-> orig]

(***************************************************************************)
(* window.Chart: the setter keeps v, builds ProxyChart around v and        *)
(* assigns window.Chart = ProxyChart inside its try.  That assignment runs *)
(* the same setter again, with ProxyChart as v, and so on until the stack  *)
(* is exhausted; the RangeError is caught by the innermost try.            *)
(***************************************************************************)
RECURSIVE ChartSetter(_, _)
\* the layers around the library in ChartREF after the setter was entered
\* with a value of `layers` layers and `free` frames left
ChartSetter(layers, free) ==
    IF free <= 1 THEN layers ELSE ChartSetter(layers + 1, free - 1)

Min(a, b) == IF a <= b THEN a ELSE b

\* new Chart(...) through `layers` ProxyChart functions with `free` frames
\* left: each pushes, then constructs the next one in (Reflect.construct is
\* in no try)
ChartConstructHook(cap, intact, layers, free, args, orig) ==
    [cap |-> PushTimes(cap, intact, "charts", [lib |-> "chartjs", cfg |-> args],
                       Min(layers, free)),
     calls |-> IF layers + 1 <= free THEN <<args>> ELSE <<>>,
     orig |-> orig,
     result |-> IF layers + 1 <= free THEN orig ELSE Throw("RangeError")]

(***************************************************************************)
(* fillText / strokeText: the push, with String(text), in a try; then the  *)
(* original with the caller's arguments.                                   *)
(***************************************************************************)
\* what the page passes as text: a string, a number, or an object whose
\* conversion to a string throws
DrawTexts ==
    {[type |-> "string", repr |-> "42"],
     [type |-> "number", repr |-> "42"],
     [type |-> "hostile", repr |-> ""]}

\* String(text) returns (it throws otherwise)
Stringifies(text) == text.type # "hostile"

\* this.fillStyle for fillText, this.strokeStyle for strokeText
StyleOf(kind) ==
    IF kind = "fill" THEN [fillStyle |-> "#000"] ELSE [strokeStyle |-> "#000"]

CanvasEntry(kind, args) ==
    [kind |-> kind, text |-> args[1].repr, x |-> args[2], y |-> args[3],
     font |-> "10px sans-serif", style |-> StyleOf(kind)]

\* a wrapper whose try also holds the call of the original
DrawTextHook_DrawInTry(cap, intact, kind, args, orig) ==
    [cap |-> IF Stringifies(args[1])
             THEN Push(cap, intact, "canvasText", CanvasEntry(kind, args))
             ELSE cap,
     calls |-> IF Stringifies(args[1]) /\ intact THEN <<args>> ELSE <<>>,
     orig |-> orig,
     result |-> IF Stringifies(args[1]) /\ intact THEN orig ELSE Ret("undefined")]

DrawTextHook(cap, intact, kind, args, orig) ==
    [cap |-> IF Stringifies(args[1])
             THEN Push(cap, intact, "canvasText", CanvasEntry(kind, args))
             ELSE cap,
     calls |-> <<args>>,
     orig |-> orig,
     result |-> orig]

(***************************************************************************)
(* Storage.prototype.setItem: the mirror of the matching scope gets        *)
(* k -> String(v) in a try; then the original with the caller's arguments. *)
(***************************************************************************)
\* what the page passes as value: a string or a number
StorageValues ==
    {[type |-> "string", repr |-> "v1"], [type |-> "number", repr |-> "2"]}

\* a wrapper that mirrors every write into the local scope
SetItemHook_AlwaysLocal(cap, intact, this, args, orig) ==
    [cap |-> IF intact
             THEN [cap EXCEPT !.storage["local"][args[1]] = args[2].repr]
             ELSE cap,
     calls |-> <<args>>,
     orig |-> orig,
     result |-> orig]

\* this: the Storage object setItem is called on
SetItemHook(cap, intact, this, args, orig) ==
    LET isLocal == this = "localStorage" IN
    [cap |-> IF intact
             THEN [cap EXCEPT !.storage[IF isLocal THEN "local" ELSE "session"][args[1]]
                                  = args[2].repr]
             ELSE cap,
     calls |-> <<args>>,
     orig |-> orig,
     result |-> orig]

(***************************************************************************)
(* The page.  It runs its own scripts while the controller waits, sleeps   *)
(* or reads: the wrappers of INJECT_JS push into window.__CAPTURE__, the   *)
(* page writes its storage, and its requests and responses reach the two   *)
(* listeners of main().  The page lives from the first navigation until    *)
(* the context or the driver is gone.                                      *)
(***************************************************************************)
PageAlive ==
    /\ navigations > 0
    /\ ctx = "open"
    /\ playwright = "running"
    /\ nEvents < MaxPageEvents

\* the page decodes an inline JSON string through the wrapped JSON.parse
PageJsonParse ==
    /\ PageAlive
    /\ nEvents' = nEvents + 1
    /\ CAPTURE' = JsonParseHook(CAPTURE, captureIntact, TObject, "undefined").cap
    /\ UNCHANGED <<localStorage, sessionStorage, hookVars, fixture>>
    /\ UNCHANGED <<ctlVars, logVars, heldVars, outVars>>
    /\ UNCHANGED appVars

\* the page configures a chart through a once-wrapped setOption
PageSetOption ==
    /\ PageAlive
    /\ nEvents' = nEvents + 1
    /\ CAPTURE' = SetOptionHook(CAPTURE, captureIntact, 1, "args1",
                                Ret("undefined")).cap
    /\ UNCHANGED <<localStorage, sessionStorage, hookVars, fixture>>
    /\ UNCHANGED <<ctlVars, logVars, heldVars, outVars>>
    /\ UNCHANGED appVars

\* the page draws a text on a canvas through the wrapped fillText
PageFillText ==
    /\ PageAlive
    /\ nEvents' = nEvents + 1
    /\ CAPTURE' = DrawTextHook(CAPTURE, captureIntact, "fill",
                               <<[type |-> "string", repr |-> "42"], 10, 20>>,
                               Ret("undefined")).cap
    /\ UNCHANGED <<localStorage, sessionStorage, hookVars, fixture>>
    /\ UNCHANGED <<ctlVars, logVars, heldVars, outVars>>
    /\ UNCHANGED appVars

\* the page writes a key of one of its storage areas through the wrapped
\* setItem
PageSetItem ==
    /\ PageAlive
    /\ nEvents' = nEvents + 1
    /\ \E k \in StorageKeys, isLocal \in BOOLEAN :
         /\ CAPTURE' = SetItemHook(CAPTURE, captureIntact,
                                   IF isLocal THEN "localStorage"
                                   ELSE "sessionStorage",
                                   <<k, [type |-> "string", repr |-> "v1"]>>,
                                   Ret("undefined")).cap
         /\ localStorage' = IF isLocal THEN localStorage \cup {k} ELSE localStorage
         /\ sessionStorage' = IF isLocal THEN sessionStorage ELSE sessionStorage \cup {k}
    /\ UNCHANGED <<hookVars, fixture>>
    /\ UNCHANGED <<ctlVars, logVars, heldVars, outVars>>
    /\ UNCHANGED appVars

\* _on_request: one entry per request; an exception inside is passed over
OnRequest ==
    /\ PageAlive
    /\ nEvents' = nEvents + 1
    /\ \E ok \in BOOLEAN :
         req_log' = IF ok THEN Append(req_log, [type |-> "request"]) ELSE req_log
    /\ UNCHANGED <<CAPTURE, localStorage, sessionStorage, hookVars, fixture,
                   json_payloads, responded>>
    /\ UNCHANGED <<ctlVars, heldVars, outVars>>
    /\ UNCHANGED appVars

(***************************************************************************)
(* on_response.  A response is its URL, its content-type (JSON or not) and *)
(* its body.                                                               *)
(***************************************************************************)
\* available: res.json() / res.text() can get the body (they raise otherwise)
NetResponse(url, ctJson, body, available) ==
    [url |-> url, ctJson |-> ctJson, body |-> body, available |-> available]

Responses ==
    {NetResponse("/api/data", TRUE, TObject, TRUE),
     NetResponse("/api/data", TRUE, TBraces, TRUE),
     NetResponse("/api/data", TRUE, TObject, FALSE),
     NetResponse("/api/data", FALSE, TObject, TRUE),
     NetResponse("/data.json", FALSE, TObject, TRUE),
     NetResponse("/data.json", FALSE, TBraces, TRUE),
     NetResponse("/data.json", FALSE, TObject, FALSE),
     NetResponse("/data.json", TRUE, TObject, TRUE)}

\* url.lower().endswith(".json") or ".json?" in url.lower()
UrlSuggestsJson(url) == url \in {"/data.json"}

\* an on_response that logs nothing for a text that does not decode
ResponseEntries_DropsUndecodable(res) ==
    LET decoded == OrigParse(res.body) IN
    IF res.ctJson
    THEN IF res.available /\ decoded.kind = "return"
         THEN <<[src |-> "network", url |-> res.url, body |-> decoded.val]>>
         ELSE <<>>
    ELSE IF UrlSuggestsJson(res.url)
         THEN IF ~res.available \/ decoded.kind # "return"
              THEN <<>>
              ELSE <<[src |-> "network-text", url |-> res.url,
                      body |-> decoded.val]>>
         ELSE <<>>

\* the entries on_response appends for one response: one or none
ResponseEntries(res) ==
    LET decoded == OrigParse(res.body) IN
    IF res.ctJson
    THEN IF res.available /\ decoded.kind = "return"
         THEN <<[src |-> "network", url |-> res.url, body |-> decoded.val]>>
         ELSE <<>>
    ELSE IF UrlSuggestsJson(res.url)
         THEN IF ~res.available
              THEN <<>>
              ELSE <<[src |-> "network-text", url |-> res.url,
                      body |-> IF decoded.kind = "return" THEN decoded.val
                               ELSE [type |-> "string", of |-> res.body.name]]>>
         ELSE <<>>

\* one more response has reached on_response
Responded(res) ==
    [n |-> responded.n + 1, url |-> res.url, ctJson |-> res.ctJson,
     body |-> res.body.name, decoded |-> res.body.parse,
     available |-> res.available]

OnResponse ==
    /\ PageAlive
    /\ nEvents' = nEvents + 1
    /\ \E res \in Responses :
         /\ json_payloads' = json_payloads \o ResponseEntries(res)
         /\ responded' = Responded(res)
    /\ UNCHANGED <<CAPTURE, localStorage, sessionStorage, hookVars, fixture, req_log>>
    /\ UNCHANGED <<ctlVars, heldVars, outVars>>
    /\ UNCHANGED appVars

Controller ==
    \/ Start
    \/ LaunchBrowser
    \/ LaunchContext
    \/ AddInitScript
    \/ TracingStart
    \/ NewPage
    \/ GotoIssue
    \/ GotoReturn
    \/ Pulse
    \/ PollCharts
    \/ PollJson
    \/ SnapCanvas
    \/ SnapLocal
    \/ SnapSession
    \/ Merge
    \/ WriteJson
    \/ WriteChart
    \/ WriteCanvas
    \/ WriteLocal
    \/ WriteSession
    \/ WriteHtml
    \/ WriteShot
    \/ TracingStop
    \/ WriteSummary
    \/ CtxClose
    \/ BrowserClose
    \/ WithExit

Page ==
    \/ PageJsonParse
    \/ PageSetOption
    \/ PageFillText
    \/ PageSetItem
    \/ OnRequest
    \/ OnResponse

Next == Controller \/ Page

\* a page that only loads resources
ObserverNext == Controller \/ OnRequest \/ OnResponse

ObserverSpec == Init /\ [][ObserverNext]_vars

Spec == Init /\ [][Next]_vars

\* the controlling flow is one sequential thread: each of its statements
\* returns or raises, so it keeps taking steps until the process ends
FairSpec == Spec /\ WF_vars(Controller)

(***************************************************************************)
(* The fixture page of the concrete scenario: it fetches /api/data, served *)
(* as application/json with the body {"a":1}, and separately decodes the   *)
(* inline string '{"b":2}' with JSON.parse.  Its steps interleave freely   *)
(* with the controller; the request and the response of the fetch also     *)
(* reach _on_request and on_response.                                      *)
(***************************************************************************)
DataResponse == [url |-> "/api/data", ctJson |-> TRUE, body |-> TObjectA]

FixtureAlive ==
    /\ navigations > 0
    /\ ctx = "open"
    /\ playwright = "running"

\* the page calls fetch("/api/data"): the wrapper awaits the original
FixtureFetch ==
    /\ FixtureAlive
    /\ fixture.fetch = "idle"
    /\ fixture' = [fixture EXCEPT !.fetch = "called"]
    /\ UNCHANGED <<CAPTURE, localStorage, sessionStorage, nEvents, hookVars>>
    /\ UNCHANGED <<ctlVars, logVars, heldVars, outVars>>
    /\ UNCHANGED appVars

\* the original fulfils with the response: the wrapper starts the decode of
\* a clone and returns res
FixtureFetchResolve ==
    /\ FixtureAlive
    /\ fixture.fetch = "called"
    /\ fixture' = [fixture EXCEPT !.fetch = "resolved"]
    /\ pending' = FetchHook(pending, "/api/data", Ret(DataResponse)).pending
    /\ UNCHANGED <<captureIntact, echartsLayers, instLayers, ChartLayers, xhr,
                   call, hookCalls>>
    /\ UNCHANGED <<CAPTURE, localStorage, sessionStorage, nEvents>>
    /\ UNCHANGED <<ctlVars, logVars, heldVars, outVars>>
    /\ UNCHANGED appVars

\* the decode of the clone settles
FixtureFetchSettle ==
    /\ FixtureAlive
    /\ pending # <<>>
    /\ CAPTURE' = FetchSettled(CAPTURE, captureIntact, Head(pending))
    /\ pending' = Tail(pending)
    /\ UNCHANGED <<captureIntact, echartsLayers, instLayers, ChartLayers, xhr,
                   call, hookCalls>>
    /\ UNCHANGED <<localStorage, sessionStorage, nEvents, fixture>>
    /\ UNCHANGED <<ctlVars, logVars, heldVars, outVars>>
    /\ UNCHANGED appVars

\* the page calls JSON.parse('{"b":2}')
FixtureParse ==
    /\ FixtureAlive
    /\ ~fixture.parsed
    /\ fixture' = [fixture EXCEPT !.parsed = TRUE]
    /\ CAPTURE' = JsonParseHook(CAPTURE, captureIntact, TObject, "undefined").cap
    /\ UNCHANGED <<localStorage, sessionStorage, nEvents, hookVars>>
    /\ UNCHANGED <<ctlVars, logVars, heldVars, outVars>>
    /\ UNCHANGED appVars

\* the request of the fetch reaches _on_request
FixtureRequestSeen ==
    /\ FixtureAlive
    /\ fixture.fetch # "idle"
    /\ ~fixture.requestSeen
    /\ fixture' = [fixture EXCEPT !.requestSeen = TRUE]
    /\ \E ok \in BOOLEAN :
         req_log' = IF ok THEN Append(req_log, [type |-> "request"]) ELSE req_log
    /\ UNCHANGED <<CAPTURE, localStorage, sessionStorage, nEvents, hookVars,
                   json_payloads, responded>>
    /\ UNCHANGED <<ctlVars, heldVars, outVars>>
    /\ UNCHANGED appVars

\* its response reaches on_response
FixtureResponseSeen ==
    /\ FixtureAlive
    /\ fixture.requestSeen
    /\ ~fixture.responseSeen
    /\ fixture' = [fixture EXCEPT !.responseSeen = TRUE]
    /\ LET res == NetResponse(DataResponse.url, DataResponse.ctJson,
                              DataResponse.body, TRUE) IN
       /\ json_payloads' = json_payloads \o ResponseEntries(res)
       /\ responded' = Responded(res)
    /\ UNCHANGED <<CAPTURE, localStorage, sessionStorage, nEvents, hookVars,
                   req_log>>
    /\ UNCHANGED <<ctlVars, heldVars, outVars>>
    /\ UNCHANGED appVars

FixturePage ==
    \/ FixtureFetch
    \/ FixtureFetchResolve
    \/ FixtureFetchSettle
    \/ FixtureParse
    \/ FixtureRequestSeen
    \/ FixtureResponseSeen

FixtureNext == Controller \/ FixturePage

FixtureSpec == Init /\ [][FixtureNext]_vars

(***************************************************************************)
(* Two runs in succession against one static page.  Both runs use the same *)
(* OUT: the same profile directory (launch_persistent_context with         *)
(* user_data_dir = OUT / "profile"), so what the page left in localStorage *)
(* is there again in the second run, and the same artifact directory.  The *)
(* page is the same document in both runs: while it loads, its script      *)
(* writes one key of localStorage, chosen from the keys it finds there.     *)
(***************************************************************************)
StaticPageLoad ==
    /\ pc = "goto_wait"
    /\ ~fixture.loaded
    /\ \E f \in [SUBSET StorageKeys -> StorageKeys] :
         /\ fixture.chosen => f = fixture.script
         /\ CAPTURE' = SetItemHook(CAPTURE, captureIntact, "localStorage",
                                   <<f[localStorage],
                                     [type |-> "string", repr |-> "v1"]>>,
                                   Ret("undefined")).cap
         /\ localStorage' = localStorage \cup {f[localStorage]}
         /\ fixture' = [fixture EXCEPT !.script = f, !.chosen = TRUE,
                                       !.loaded = TRUE]
    /\ UNCHANGED <<sessionStorage, nEvents, hookVars>>
    /\ UNCHANGED <<ctlVars, logVars, heldVars, outVars>>
    /\ UNCHANGED appVars

\* the page was loaded and every read of the run returned what it held
FaithfulReads ==
    /\ fixture.loaded
    /\ charts = CAPTURE.charts
    /\ injected_json = CAPTURE.json
    /\ canvas_text = CAPTURE.canvasText
    /\ ls = localStorage
    /\ ss = sessionStorage

\* the first run is over, complete; the harness is started again with the
\* same URL: a new process, browser and page over the profile and the
\* artifacts the first run left
Rerun ==
    /\ pc = "exited"
    /\ exitCode = 0
    /\ fixture.run = 1
    /\ summary # NoSummary
    /\ FaithfulReads
    /\ fixture' = [fixture EXCEPT !.run = 2, !.first = summary, !.loaded = FALSE]
    /\ pc' = "start"
    /\ exitCode' = -1
    /\ raised' = "none"
    /\ playwright' = "idle"
    /\ browser' = "none"
    /\ ctx' = "none"
    /\ browserCloseCalls' = 0
    /\ ctxCloseCalls' = 0
    /\ tracing' = "off"
    /\ navigations' = 0
    /\ navOutcome' = "none"
    /\ pulseI' = 0
    /\ pollI' = 0
    /\ broke' = FALSE
    /\ CAPTURE' = EmptyCapture
    /\ sessionStorage' = {}
    /\ nEvents' = 0
    /\ req_log' = <<>>
    /\ json_payloads' = <<>>
    /\ responded' = NoneResponded
    /\ charts' = <<>>
    /\ injected_json' = <<>>
    /\ canvas_text' = <<>>
    /\ ls' = {}
    /\ ss' = {}
    /\ reads' = [canvasText |-> 0, local |-> 0, session |-> 0]
    /\ merged_json' = <<>>
    /\ wi' = 0
    /\ attempted' = {}
    /\ summary' = NoSummary
    /\ UNCHANGED <<URL, localStorage, written, hookVars>>
    /\ UNCHANGED appVars

RerunNext == Controller \/ StaticPageLoad \/ Rerun

RerunSpec == Init /\ [][RerunNext]_vars

\* on_response for a response of the page's data endpoint: any number of
\* them, at any time while the page lives
OnDataResponse ==
    /\ PageAlive
    /\ nEvents' = nEvents + 1
    /\ LET res == NetResponse(DataResponse.url, DataResponse.ctJson,
                              DataResponse.body, TRUE) IN
       /\ json_payloads' = json_payloads \o ResponseEntries(res)
       /\ responded' = Responded(res)
    /\ UNCHANGED <<CAPTURE, localStorage, sessionStorage, hookVars, fixture, req_log>>
    /\ UNCHANGED <<ctlVars, heldVars, outVars>>
    /\ UNCHANGED appVars

\* two sessions in succession over one output directory, the network
\* answering each with as many responses as it happens to
SessionsNext == Controller \/ StaticPageLoad \/ OnDataResponse \/ Rerun

SessionsSpec == Init /\ [][SessionsNext]_vars

(***************************************************************************)
(* The page runtime on its own: the page invokes wrapped primitives, one   *)
(* after the other, with any arguments and any behaviour of the original.  *)
(***************************************************************************)
mainVars == <<ctlVars, logVars, heldVars, outVars, nEvents, fixture>>

CanInvoke == hookCalls < MaxHookCalls

Invoked(obs) ==
    /\ call' = obs
    /\ hookCalls' = hookCalls + 1

\* the page's own script replaces window.__CAPTURE__
HookClobber ==
    /\ CanInvoke
    /\ captureIntact
    /\ captureIntact' = FALSE
    /\ Invoked(NoCall)
    /\ UNCHANGED <<CAPTURE, localStorage, sessionStorage, echartsLayers,
                   instLayers, ChartLayers, xhr, pending>>
    /\ UNCHANGED mainVars
    /\ UNCHANGED appVars

HookJsonParse ==
    /\ CanInvoke
    /\ \E t \in Texts :
         LET h == JsonParseHook(CAPTURE, captureIntact, t, "undefined") IN
         /\ CAPTURE' = h.cap
         /\ Invoked(Observed("JSON.parse", <<t, "undefined">>, h.calls, h.orig, h.result))
    /\ UNCHANGED <<localStorage, sessionStorage, captureIntact, echartsLayers,
                   instLayers, ChartLayers, xhr, pending>>
    /\ UNCHANGED mainVars
    /\ UNCHANGED appVars

HookFetch ==
    /\ CanInvoke
    /\ \E args \in FetchUrls :
       \E orig \in {Ret(r) : r \in {q \in FetchResponses : q.url = args}}
                      \cup {Throw("TypeError")} :
         LET h == FetchHook(pending, args, orig) IN
         /\ pending' = h.pending
         /\ Invoked([hook |-> "fetch", args |-> args, calls |-> h.calls,
                      orig |-> h.orig, result |-> h.result,
                      bodyUsed |-> h.bodyUsed])
    /\ UNCHANGED <<CAPTURE, localStorage, sessionStorage, captureIntact,
                   echartsLayers, instLayers, ChartLayers, xhr>>
    /\ UNCHANGED mainVars
    /\ UNCHANGED appVars

\* one of the started decodes settles; they settle in any order
HookFetchSettle ==
    /\ \E i \in 1 .. Len(pending) :
         /\ CAPTURE' = FetchSettled(CAPTURE, captureIntact, pending[i])
         /\ pending' = SubSeq(pending, 1, i - 1) \o SubSeq(pending, i + 1, Len(pending))
    /\ UNCHANGED <<localStorage, sessionStorage, captureIntact, echartsLayers,
                   instLayers, ChartLayers, xhr, call, hookCalls>>
    /\ UNCHANGED mainVars
    /\ UNCHANGED appVars

\* the page calls open(method, url) on one of its request objects; opened
\* notes the URL it passed, state follows the request (a failed open leaves
\* it as it was)
HookXhrOpen ==
    /\ CanInvoke
    /\ \E r \in XhrIds, url \in XhrUrls :
       \E orig \in {Ret("undefined"), Throw("SyntaxError")} :
         LET h == XhrOpenHook(xhr, r, <<"GET", url>>, orig) IN
         /\ xhr' = [h.xhr EXCEPT ![r].opened = url,
                                 ![r].state = IF orig.kind = "return"
                                              THEN "opened" ELSE @]
         /\ Invoked(Observed("xhr.open", <<"GET", url>>, h.calls, h.orig, h.result))
    /\ UNCHANGED <<CAPTURE, localStorage, sessionStorage, captureIntact,
                   echartsLayers, instLayers, ChartLayers, pending>>
    /\ UNCHANGED mainVars
    /\ UNCHANGED appVars

\* the page calls send(body); the original sends an opened request and
\* throws on any other
HookXhrSend ==
    /\ CanInvoke
    /\ \E r \in XhrIds :
       \E orig \in {Ret("undefined"), Throw("InvalidStateError")} :
         LET h == XhrSendHook(xhr, r, <<"body">>, orig) IN
         /\ orig.kind = "return" => xhr[r].state = "opened"
         /\ xhr' = [h.xhr EXCEPT ![r].state = IF orig.kind = "return"
                                              THEN "sent" ELSE @]
         /\ Invoked(Observed("xhr.send", <<"body">>, h.calls, h.orig, h.result))
    /\ UNCHANGED <<CAPTURE, localStorage, sessionStorage, captureIntact,
                   echartsLayers, instLayers, ChartLayers, pending>>
    /\ UNCHANGED mainVars
    /\ UNCHANGED appVars

\* a sent request completes: every load listener added by send runs
HookXhrLoad ==
    /\ CanInvoke
    /\ \E r \in XhrIds, resp \in XhrResponses :
         /\ xhr[r].state = "sent"
         /\ CAPTURE' = XhrListeners(CAPTURE, captureIntact, xhr[r].url, resp,
                                    xhr[r].listeners)
         /\ xhr' = [xhr EXCEPT ![r].state = "done"]
         /\ Invoked([hook |-> "none", event |-> "xhr.load", req |-> r, resp |-> resp])
    /\ UNCHANGED <<localStorage, sessionStorage, captureIntact, echartsLayers,
                   instLayers, ChartLayers, pending>>
    /\ UNCHANGED mainVars
    /\ UNCHANGED appVars

\* the page assigns its library object to window.echarts
HookEchartsAssign ==
    /\ echartsLayers < MaxAssignments
    /\ echartsLayers' = echartsLayers + 1
    /\ call' = NoCall
    /\ hookCalls' = hookCalls
    /\ UNCHANGED <<CAPTURE, localStorage, sessionStorage, captureIntact,
                   instLayers, ChartLayers, xhr, pending>>
    /\ UNCHANGED mainVars
    /\ UNCHANGED appVars

HookEchartsInit ==
    /\ CanInvoke
    /\ echartsLayers >= 1
    /\ \E args \in HookArgs :
       \E orig \in {Ret(i) : i \in Instances} \cup {Ret("undefined"), Throw("Error")} :
         LET h == EchartsInitHook(instLayers, echartsLayers, args, orig) IN
         /\ instLayers' = h.instLayers
         /\ Invoked(Observed("echarts.init", args, h.calls, h.orig, h.result))
    /\ UNCHANGED <<CAPTURE, localStorage, sessionStorage, captureIntact,
                   echartsLayers, ChartLayers, xhr, pending>>
    /\ UNCHANGED mainVars
    /\ UNCHANGED appVars

HookSetOption ==
    /\ CanInvoke
    /\ \E i \in Instances, args \in HookArgs :
       \E orig \in {Ret("undefined"), Throw("Error")} :
         /\ instLayers[i] >= 1
         /\ LET h == SetOptionHook(CAPTURE, captureIntact, instLayers[i], args, orig) IN
            /\ CAPTURE' = h.cap
            /\ Invoked(Observed("setOption", args, h.calls, h.orig, h.result))
    /\ UNCHANGED <<localStorage, sessionStorage, captureIntact, echartsLayers,
                   instLayers, ChartLayers, xhr, pending>>
    /\ UNCHANGED mainVars
    /\ UNCHANGED appVars

\* the page assigns its library to window.Chart, somewhere on its stack
HookChartAssign ==
    /\ CanInvoke
    /\ \E free \in 1 .. StackFrames :
         ChartLayers' = ChartSetter(0, free)
    /\ Invoked(NoCall)
    /\ UNCHANGED <<CAPTURE, localStorage, sessionStorage, captureIntact,
                   echartsLayers, instLayers, xhr, pending>>
    /\ UNCHANGED mainVars
    /\ UNCHANGED appVars

HookChartConstruct ==
    /\ CanInvoke
    /\ ChartLayers >= 1
    /\ \E free \in 1 .. StackFrames, args \in HookArgs :
       \E orig \in {Ret("chart"), Throw("Error")} :
         LET h == ChartConstructHook(CAPTURE, captureIntact, ChartLayers, free,
                                     args, orig) IN
         /\ CAPTURE' = h.cap
         /\ Invoked(Observed("Chart", args, h.calls, h.orig, h.result))
    /\ UNCHANGED <<localStorage, sessionStorage, captureIntact, echartsLayers,
                   instLayers, ChartLayers, xhr, pending>>
    /\ UNCHANGED mainVars
    /\ UNCHANGED appVars

HookDrawText ==
    /\ CanInvoke
    /\ \E kind \in {"fill", "stroke"}, text \in DrawTexts :
       \E orig \in {Ret("undefined"), Throw("TypeError")} :
         LET args == <<text, 10, 20>>
             h == DrawTextHook(CAPTURE, captureIntact, kind, args, orig) IN
         /\ CAPTURE' = h.cap
         /\ Invoked(Observed(kind \o "Text", args, h.calls, h.orig, h.result))
    /\ UNCHANGED <<localStorage, sessionStorage, captureIntact, echartsLayers,
                   instLayers, ChartLayers, xhr, pending>>
    /\ UNCHANGED mainVars
    /\ UNCHANGED appVars

HookSetItem ==
    /\ CanInvoke
    /\ \E this \in {"localStorage", "sessionStorage"}, k \in StorageKeys,
          v \in StorageValues :
       \E orig \in {Ret("undefined"), Throw("QuotaExceededError")} :
         LET args == <<k, v>>
             h == SetItemHook(CAPTURE, captureIntact, this, args, orig) IN
         /\ CAPTURE' = h.cap
         /\ localStorage' = IF this = "localStorage" /\ orig.kind = "return"
                            THEN localStorage \cup {k} ELSE localStorage
         /\ sessionStorage' = IF this = "sessionStorage" /\ orig.kind = "return"
                              THEN sessionStorage \cup {k} ELSE sessionStorage
         /\ Invoked([hook |-> "setItem", args |-> args, calls |-> h.calls,
                      orig |-> h.orig, result |-> h.result, this |-> this])
    /\ UNCHANGED <<captureIntact, echartsLayers, instLayers, ChartLayers, xhr,
                   pending>>
    /\ UNCHANGED mainVars
    /\ UNCHANGED appVars

HookNext ==
    \/ HookClobber
    \/ HookJsonParse
    \/ HookFetch
    \/ HookFetchSettle
    \/ HookXhrOpen
    \/ HookXhrSend
    \/ HookXhrLoad
    \/ HookEchartsAssign
    \/ HookEchartsInit
    \/ HookSetOption
    \/ HookChartAssign
    \/ HookChartConstruct
    \/ HookDrawText
    \/ HookSetItem

HookSpec == Init /\ [][HookNext]_vars

\* a page that only fetches and decodes
FetchNext ==
    \/ HookClobber
    \/ HookJsonParse
    \/ HookFetch
    \/ HookFetchSettle

FetchSpec == Init /\ [][FetchNext]_vars

\* a started decode settles: the promise of cloned.json() / cloned.text()
\* is resolved or rejected by the runtime
FetchFairSpec == FetchSpec /\ WF_vars(HookFetchSettle)

\* a page that only uses its charting libraries
ChartsNext ==
    \/ HookClobber
    \/ HookEchartsAssign
    \/ HookEchartsInit
    \/ HookSetOption
    \/ HookChartAssign
    \/ HookChartConstruct

ChartsSpec == Init /\ [][ChartsNext]_vars

\* a page that only draws text and writes its storage
RecorderNext ==
    \/ HookClobber
    \/ HookDrawText
    \/ HookSetItem

RecorderSpec == Init /\ [][RecorderNext]_vars

(***************************************************************************)
(* The viewer service (src/app.py): POST /save_to_supabase.  A request is  *)
(* a sequence of REST calls to the database; the steps of two requests     *)
(* interleave at those calls.  A phone number is the sequence of its       *)
(* characters.                                                             *)
(***************************************************************************)
DEFAULT_COUNTRY_CODE == <<"9", "1">>

DigitChars == {"0", "1", "2", "3", "4", "5", "6", "7", "8", "9"}

\* "".join(ch for ch in raw if ch.isdigit())
DigitsOf(raw) == SelectSeq(raw, LAMBDA ch : ch \in DigitChars)

RECURSIVE LStrip(_)
LStrip(raw) ==
    IF raw # <<>> /\ Head(raw) = " " THEN LStrip(Tail(raw)) ELSE raw

RECURSIVE RStrip(_)
RStrip(raw) ==
    IF raw # <<>> /\ raw[Len(raw)] = " "
    THEN RStrip(SubSeq(raw, 1, Len(raw) - 1))
    ELSE raw

\* str.strip()
Strip(raw) == RStrip(LStrip(raw))

\* to_e164; <<>> stands for None
to_e164(raw) ==
    LET r == Strip(raw)
        digits == DigitsOf(r) IN
    IF r = <<>> THEN <<>>
    ELSE IF Head(r) = "+"
         THEN IF digits # <<>> THEN <<"+">> \o digits ELSE <<>>
         ELSE IF digits = <<>> THEN <<>>
              ELSE IF Len(digits) = 10
                   THEN <<"+">> \o DEFAULT_COUNTRY_CODE \o digits
                   ELSE <<"+">> \o digits

\* the phone spellings a client sends: two of one number, another number,
\* one of ten digits, one without a digit
Spelled == <<" ", "9", "8", "7", "6", "5", "-", "4", "3", "2", "1", "0">>
Prefixed == <<"+", "9", "1", " ", "9", "8", "7", "6", "5", "4", "3", "2", "1", "0">>
Foreign == <<"+", "1", "5", "5", "5">>

Payload(url_id, url_sign, phone, name) ==
    [url_id |-> url_id, url_sign |-> url_sign, phone |-> phone, name |-> name]

\* the scan objects a client posts: identity pair, phone, name
Payloads ==
    {Payload("42", "sA", Spelled, ""),
     Payload("42", "sA", Spelled, "Ann"),
     Payload("42", "sA", Prefixed, ""),
     Payload("42", "sB", Prefixed, "Ann"),
     Payload("42", "sB", Foreign, ""),
     Payload("", "sA", Spelled, ""),
     Payload("42", "sA", <<"-">>, "")}

\* raise HTTPException(status_code, detail={"stage": stage, ...})
Failed(r, status, stage) ==
    save' = [save EXCEPT ![r].pc = "failed",
                         ![r].out = [NoResponse EXCEPT !.kind = "error",
                                                       !.status = status,
                                                       !.stage = stage]]

\* the positions of a request in which it holds no REST call to make
AtRest(r) == save[r].pc \in {"idle", "returned", "failed"}

\* lines 254-275: the payload, the identity pair, the phone
SaveBegin(r) ==
    /\ save[r].pc = "idle"
    /\ r > 1 => save[r - 1].pc # "idle"
    /\ \E data \in Payloads :
         LET phone_e164 == to_e164(Strip(data.phone)) IN
         IF data.url_id = "" \/ data.url_sign = ""
         THEN save' = [save EXCEPT ![r].pc = "failed", ![r].data = data,
                                   ![r].out = [NoResponse EXCEPT
                                                 !.kind = "error",
                                                 !.status = 400,
                                                 !.stage = "url_id/url_sign"]]
         ELSE IF phone_e164 = <<>>
         THEN save' = [save EXCEPT ![r].pc = "failed", ![r].data = data,
                                   ![r].out = [NoResponse EXCEPT
                                                 !.kind = "error",
                                                 !.status = 400,
                                                 !.stage = "phone"]]
         ELSE save' = [save EXCEPT ![r].pc = "customer_get", ![r].data = data,
                                   ![r].phone_e164 = phone_e164]
    /\ UNCHANGED db

\* the client sends a request when the one before has been answered
SaveCall ==
    /\ \E r \in Requests :
         /\ \A q \in Requests : AtRest(q)
         /\ SaveBegin(r)
    /\ UNCHANGED <<ctlVars, pageVars, logVars, heldVars, outVars>>

\* the rows a GET with an eq filter selects
CustomersOf(phone_e164) ==
    {i \in DOMAIN db.customers : db.customers[i].phone = phone_e164}

ScansOf(url_id, url_sign) ==
    {i \in DOMAIN db.scans : /\ db.scans[i].url_id = url_id
                             /\ db.scans[i].url_sign = url_sign}

\* lines 277-289: GET customer by phone_e164, limit 1
CustomerGet ==
    /\ \E r \in Requests :
         /\ save[r].pc = "customer_get"
         /\ \/ Failed(r, 500, "customer_get")
            \/ LET found == CustomersOf(save[r].phone_e164) IN
               IF found # {}
               THEN \E i \in found :
                      LET row == db.customers[i]
                          full_name == save[r].data.name IN
                      save' = [save EXCEPT
                                 ![r].customer_id = row.id,
                                 ![r].pc = IF full_name # "" /\ row.name # full_name
                                           THEN "customer_update"
                                           ELSE "scan_lookup"]
               ELSE save' = [save EXCEPT ![r].pc = "customer_insert"]
    /\ UNCHANGED db
    /\ UNCHANGED <<ctlVars, pageVars, logVars, heldVars, outVars>>

\* lines 290-293: PATCH the name of the rows with that phone
CustomerUpdate ==
    /\ \E r \in Requests :
         /\ save[r].pc = "customer_update"
         /\ \/ Failed(r, 500, "customer_update") /\ UNCHANGED db
            \/ /\ db' = [db EXCEPT !.customers =
                           [i \in DOMAIN db.customers |->
                              IF db.customers[i].phone = save[r].phone_e164
                              THEN [db.customers[i] EXCEPT
                                      !.name = save[r].data.name]
                              ELSE db.customers[i]]]
               /\ save' = [save EXCEPT ![r].pc = "scan_lookup"]
    /\ UNCHANGED <<ctlVars, pageVars, logVars, heldVars, outVars>>

\* lines 294-304: POST a customer row; the database rejects a second row of
\* a phone when the column is unique
CustomerInsert ==
    /\ \E r \in Requests :
         /\ save[r].pc = "customer_insert"
         /\ \/ Failed(r, 500, "customer_insert") /\ UNCHANGED db
            \/ /\ db.uniquePhone /\ CustomersOf(save[r].phone_e164) # {}
               /\ Failed(r, 409, "customer_insert")
               /\ UNCHANGED db
            \/ /\ ~(db.uniquePhone /\ CustomersOf(save[r].phone_e164) # {})
               /\ LET id == Len(db.customers) + 1 IN
                  /\ db' = [db EXCEPT !.customers =
                              Append(@, [id |-> id,
                                         phone |-> save[r].phone_e164,
                                         name |-> save[r].data.name])]
                  /\ save' = [save EXCEPT ![r].customer_id = id,
                                          ![r].pc = "scan_lookup"]
    /\ UNCHANGED <<ctlVars, pageVars, logVars, heldVars, outVars>>

\* a lookup that finds nothing, so that the request goes on to insert
ScanLookup_NoShortCircuit ==
    /\ \E r \in Requests :
         /\ save[r].pc = "scan_lookup"
         /\ \/ Failed(r, 500, "scan_lookup")
            \/ save' = [save EXCEPT ![r].pc = "session_insert"]
    /\ UNCHANGED db
    /\ UNCHANGED <<ctlVars, pageVars, logVars, heldVars, outVars>>

\* lines 306-322: GET the scan of the identity pair, limit 1; if there is
\* one, answer with it
ScanLookup ==
    /\ \E r \in Requests :
         /\ save[r].pc = "scan_lookup"
         /\ \/ Failed(r, 500, "scan_lookup")
            \/ LET existing == ScansOf(save[r].data.url_id,
                                       save[r].data.url_sign) IN
               IF existing # {}
               THEN \E i \in existing :
                      save' = [save EXCEPT
                                 ![r].pc = "returned",
                                 ![r].out = [NoResponse EXCEPT
                                               !.kind = "ok",
                                               !.status = 200,
                                               !.duplicate = TRUE,
                                               !.scan_id = db.scans[i].id,
                                               !.session_id =
                                                   db.scans[i].session_id]]
               ELSE save' = [save EXCEPT ![r].pc = "session_insert"]
    /\ UNCHANGED db
    /\ UNCHANGED <<ctlVars, pageVars, logVars, heldVars, outVars>>

\* lines 324-334: POST an assessment_session row
SessionInsert ==
    /\ \E r \in Requests :
         /\ save[r].pc = "session_insert"
         /\ \/ Failed(r, 500, "session_insert") /\ UNCHANGED db
            \/ LET id == Len(db.sessions) + 1 IN
               /\ db' = [db EXCEPT !.sessions =
                           Append(@, [id |-> id,
                                      customer_id |-> save[r].customer_id])]
               /\ save' = [save EXCEPT ![r].session_id = id,
                                       ![r].pc = "scan_insert"]
    /\ UNCHANGED <<ctlVars, pageVars, logVars, heldVars, outVars>>

\* lines 336-367: POST a machine_scan row with on_conflict=url_id,url_sign.
\* When the pair is unique and already present the database either rejects
\* the row or resolves the conflict into the row that is there.
ScanInsert ==
    /\ \E r \in Requests :
         /\ save[r].pc = "scan_insert"
         /\ LET existing == ScansOf(save[r].data.url_id, save[r].data.url_sign)
                conflict == db.uniquePair /\ existing # {}
                Answer(id) ==
                    save' = [save EXCEPT
                               ![r].pc = "returned",
                               ![r].out = [NoResponse EXCEPT
                                             !.kind = "ok",
                                             !.status = 200,
                                             !.scan_id = id,
                                             !.session_id = save[r].session_id]]
            IN
            \/ Failed(r, 500, "scan_insert") /\ UNCHANGED db
            \/ /\ conflict
               /\ Failed(r, 409, "scan_insert")
               /\ UNCHANGED db
            \/ /\ conflict
               /\ \E i \in existing :
                    /\ db' = [db EXCEPT !.scans[i].session_id =
                                            save[r].session_id]
                    /\ Answer(db.scans[i].id)
            \/ /\ ~conflict
               /\ LET id == Len(db.scans) + 1 IN
                  /\ db' = [db EXCEPT !.scans =
                              Append(@, [id |-> id,
                                         session_id |-> save[r].session_id,
                                         url_id |-> save[r].data.url_id,
                                         url_sign |-> save[r].data.url_sign])]
                  /\ Answer(id)
    /\ UNCHANGED <<ctlVars, pageVars, logVars, heldVars, outVars>>

\* the service and its database, before the first request; the schema is
\* the deployment's
SaveInit ==
    /\ HarnessInit
    /\ URL = ""
    /\ \E uniquePhone, uniquePair \in BOOLEAN :
         db = EmptyDb(uniquePhone, uniquePair)
    /\ save = [r \in Requests |-> IdleSave]

SaveSteps ==
    \/ CustomerGet
    \/ CustomerUpdate
    \/ CustomerInsert
    \/ ScanLookup
    \/ SessionInsert
    \/ ScanInsert

\* one client calling the endpoint again and again
SerialNext == SaveCall \/ SaveSteps

SerialSpec == SaveInit /\ [][SerialNext]_vars

\* a request arrives while others are between two of their REST calls: the
\* handler is a coroutine per request and every _sb_req is a call of its own
SaveArrive ==
    /\ \E r \in Requests : SaveBegin(r)
    /\ UNCHANGED <<ctlVars, pageVars, logVars, heldVars, outVars>>

\* clients calling the endpoint at the same time
ConcurrentNext == SaveArrive \/ SaveSteps

ConcurrentSpec == SaveInit /\ [][ConcurrentNext]_vars

(* C10: every installed wrapper calls the original primitive exactly once
   per invocation with the caller's arguments and hands the caller exactly
   what the original returned or threw; no failure of the wrapper's own
   steps reaches the caller. *)
C10_WrappersTransparent ==
    call.hook # "none"
        => /\ Len(call.calls) = 1
           /\ call.calls[1] = call.args
           /\ call.result = call.orig

(***************************************************************************)
(* Properties of main().                                                   *)
(***************************************************************************)
\* the browser and the persistent context were both acquired
Acquired == browser # "none" /\ ctx # "none"

\* the process has ended
Exited == pc = "exited"

\* the polling loop has been left
PastLoop == pulseI = Pulses /\ pc \notin {"pulse", "poll_charts", "poll_json"}

\* the snapshot reads are behind
PastSnapshots == PastLoop /\ pc \notin {"snap_canvas", "snap_ls", "snap_ss"}

\* the artifacts this session has to write, given what it holds
SessionArtifacts ==
    {Artifact("xhr", i) : i \in 0 .. Len(merged_json) - 1}
    \cup {Artifact("chart", i) : i \in 0 .. Len(charts) - 1}
    \cup (IF canvas_text # <<>> THEN {Artifact("canvas-text", 0)} ELSE {})
    \cup {Artifact(k, 0) : k \in {"storage-local", "storage-session", "page",
                                  "screenshot", "trace", "summary"}}

\* the exit paths C1 and C3 name: completion, navigation, an artifact write
NamedExitPaths ==
    {"none", "goto:timeout", "goto:error", "write:xhr", "write:chart",
     "write:canvas-text", "write:storage-local", "write:storage-session",
     "write:trace", "write:summary"}

(* C1: on every exit path of main() after the browser and the context were
   acquired (completion, an exception of page.goto or of an artifact write),
   the context and the browser are each closed exactly once. *)
C1_ReleasedExactlyOnce ==
    (Exited /\ Acquired /\ raised \in NamedExitPaths)
        => /\ ctxCloseCalls = 1 /\ ctx = "closed"
           /\ browserCloseCalls = 1 /\ browser = "closed"

(* C2: when page.goto fails with a timeout the run does not abort: the
   pulses, the polling loop, the snapshot reads and the artifact writes are
   still performed. *)
C2_NavigationTimeoutContinues ==
    (Exited /\ navOutcome = "timeout")
        => /\ pulseI = Pulses
           /\ pollI >= 1
           /\ reads = [canvasText |-> 1, local |-> 1, session |-> 1]
           /\ Artifact("summary", 0) \in attempted

(* C3: every run that acquired a session writes summary.json, whatever later
   step fails (navigation, an artifact write, stopping the trace). *)
C3_SummaryAlwaysWritten ==
    (Exited /\ Acquired /\ raised \in NamedExitPaths)
        => /\ summary.written
           /\ Artifact("summary", 0) \in written

(* C4: artifact writes are independent: when the write of one artifact
   fails, every other artifact write of the session is still attempted. *)
C4_WritesIndependent ==
    (Exited /\ attempted \ written # {})
        => SessionArtifacts \subseteq attempted

(* C5: if the screenshot write fails, the json, chart, canvas-text and
   storage artifacts have already been written and the summary record is
   written afterwards. *)
C5_ScreenshotFailureIsolated ==
    (Artifact("screenshot", 0) \in attempted \ written)
        => /\ \A i \in 0 .. Len(merged_json) - 1 : Artifact("xhr", i) \in written
           /\ \A i \in 0 .. Len(charts) - 1 : Artifact("chart", i) \in written
           /\ Artifact("canvas-text", 0) \in written
           /\ Artifact("storage-local", 0) \in written
           /\ Artifact("storage-session", 0) \in written
           /\ Exited => summary.written

\* the loop never starts more than 75 iterations, and when it is left
\* without break exactly 75 iterations were run
PollingBounded ==
    /\ pollI <= PollIterations
    /\ (PastLoop /\ ~broke) => pollI = PollIterations
    /\ (pc = "poll_charts") => pollI < PollIterations
    /\ broke => PastLoop

\* the loop is left only towards the snapshot reads
LoopLeavesToSnapshots ==
    (pc \in {"poll_charts", "poll_json"} /\ pc' \notin {"poll_charts", "poll_json"})
        => pc' = "snap_canvas"

(* C6: the polling loop always terminates: once entered it is eventually
   left, towards the snapshot reads and nowhere else; it never starts more
   than 75 iterations, and when it is left without break (nothing non-empty
   was read, or reads raised) exactly 75 iterations were run. *)
C6_PollingTerminates ==
    /\ []PollingBounded
    /\ [][LoopLeavesToSnapshots]_vars
    /\ (pc = "poll_charts") ~> (pc = "snap_canvas")

C6_Witness ==
    /\ pc = "snap_canvas"
    /\ ~broke
    /\ pollI = PollIterations
    /\ charts = <<>> /\ injected_json = <<>>

(* C7: the polling loop never starts a further iteration after an iteration
   that read a non-empty charts or json value. *)
C7_ExitsOnFirstNonEmpty ==
    (pc = "poll_charts" /\ pollI >= 1) => (charts = <<>> /\ injected_json = <<>>)

(* C8: after the polling loop ends, by break or by exhausting its
   iterations, the canvasText channel and the two storage scopes are each
   read exactly once, whatever the loop observed and whether or not a read
   raises; no snapshot read happens before the loop ends. *)
C8_SnapshotsReadOnce ==
    /\ PastSnapshots => reads = [canvasText |-> 1, local |-> 1, session |-> 1]
    /\ ~PastLoop => reads = [canvasText |-> 0, local |-> 0, session |-> 0]
    /\ pc = "snap_canvas" => reads = [canvasText |-> 0, local |-> 0, session |-> 0]
    /\ pc = "snap_ls" => reads = [canvasText |-> 1, local |-> 0, session |-> 0]
    /\ pc = "snap_ss" => reads = [canvasText |-> 1, local |-> 1, session |-> 0]

\* both ways out of the loop, each followed by the three reads
C8_Witness ==
    /\ pc = "merge"
    /\ broke
    /\ reads = [canvasText |-> 1, local |-> 1, session |-> 1]

C8_WitnessExhausted ==
    /\ pc = "merge"
    /\ ~broke
    /\ pollI = PollIterations
    /\ reads = [canvasText |-> 1, local |-> 1, session |-> 1]

(* C9: the trace is started before the first navigation, the context is
   never closed while the trace is recording, and on every exit path the
   trace has been stopped. *)
C9_TraceStoppedBeforeRelease ==
    /\ navigations > 0 => tracing # "off"
    /\ ctx = "closed" => tracing = "stopped"
    /\ (Exited /\ tracing # "off") => tracing = "stopped"

(***************************************************************************)
(* Properties of the wrappers.                                             *)
(***************************************************************************)
Occurrences(seq, e) == Cardinality({i \in DOMAIN seq : seq[i] = e})

\* the structured value a text is served as
Served(t) == [type |-> t.parse, of |-> t.name]

\* the entry the claim expects for a fetched response
FetchEntry(r) == [src |-> "fetch", url |-> r.url, body |-> Served(r.body)]

\* started and not yet settled json() decodes of a response
JsonDecodes(r) ==
    Cardinality({i \in DOMAIN pending : pending[i] = [decode |-> "json", res |-> r]})

\* in the channel or on its way into it
FetchRecorded(r) == Occurrences(CAPTURE.json, FetchEntry(r)) + JsonDecodes(r)

\* this step is a fetch call whose original fulfils with r
FetchReturned(r) ==
    /\ hookCalls' = hookCalls + 1
    /\ call'.hook = "fetch"
    /\ call'.orig = Ret(r)

(* C11: for every fetch call whose response has a JSON content-type, the
   json channel eventually (here: once every started decode has settled)
   holds an entry tagged fetch with the response URL and the served body,
   and the caller got the original response with its body unread. *)
C11_FetchJsonRecorded ==
    (/\ call.hook = "fetch"
     /\ call.orig.kind = "return"
     /\ call.orig.val.ctJson
     /\ pending = <<>>)
        => /\ Occurrences(CAPTURE.json, FetchEntry(call.orig.val)) >= 1
           /\ call.result = call.orig
           /\ ~call.bodyUsed

DecodableJsonResponses ==
    {r \in FetchResponses : r.ctJson /\ r.body.parse # "fail"}

FetchJsonStep ==
    \A r \in DecodableJsonResponses :
        /\ FetchReturned(r) => call'.result = Ret(r) /\ ~call'.bodyUsed
        /\ captureIntact'
              => FetchRecorded(r)' = FetchRecorded(r)
                                       + (IF FetchReturned(r) THEN 1 ELSE 0)

(* C11, amended: for every fetch call whose response has a JSON
   content-type and a body that decodes, and as long as the page leaves
   window.__CAPTURE__ in place, the call starts one decode, every started
   decode eventually settles into one entry tagged fetch with the response
   URL and the served body, and the caller got the original response with
   its body unread. *)
C11_FetchDecodableJsonRecorded ==
    /\ [][FetchJsonStep]_vars
    /\ \A r \in DecodableJsonResponses : (JsonDecodes(r) > 0) ~> (JsonDecodes(r) = 0)

C11_Witness ==
    /\ captureIntact
    /\ pending = <<>>
    /\ call.hook = "fetch"
    /\ call.orig.kind = "return"
    /\ call.orig.val \in DecodableJsonResponses
    /\ Occurrences(CAPTURE.json, FetchEntry(call.orig.val)) >= 1

\* this step is the completion of request r with response resp
XhrLoaded(r, resp) ==
    /\ hookCalls' = hookCalls + 1
    /\ call' = [hook |-> "none", event |-> "xhr.load", req |-> r, resp |-> resp]

\* the entries the step appended to the json channel
NewJson == SubSeq(CAPTURE'.json, Len(CAPTURE.json) + 1, Len(CAPTURE'.json))

XhrJsonStep ==
    \A r \in XhrIds, resp \in XhrResponses :
        (/\ XhrLoaded(r, resp)
         /\ captureIntact
         /\ resp.ctJson
         /\ resp.text.parse # "fail")
            => Occurrences(NewJson, [src |-> "xhr", url |-> xhr[r].opened,
                                     body |-> Served(resp.text)]) >= 1

(* C12: when a request object completes with a JSON content-type and a
   decodable body (in a page that left window.__CAPTURE__ in place), the
   json channel gets an entry tagged xhr whose url is the URL of the most
   recent open() on that object and whose body is the decoded response. *)
C12_XhrJsonRecorded == [][XhrJsonStep]_vars

(***************************************************************************)
(* Properties of the bundle.                                               *)
(***************************************************************************)
Tagged(seq, tag) == Cardinality({i \in DOMAIN seq : seq[i].src = tag})

\* the fixture page ran to its end and the json read saw all it pushed
FixtureCaptured ==
    /\ fixture.fetch = "resolved"
    /\ fixture.parsed
    /\ pending = <<>>
    /\ injected_json = CAPTURE.json

(* C13: for the fixture page, once the summary is written (and the page
   had done its fetch and its inline decode before the json channel was
   read), the merged json list has exactly two entries, one tagged fetch
   and one tagged inline, and the summary's json count is 2. *)
C13_FixtureBundle ==
    (summary # NoSummary /\ FixtureCaptured)
        => /\ Len(merged_json) = 2
           /\ Tagged(merged_json, "fetch") = 1
           /\ Tagged(merged_json, "inline") = 1
           /\ summary.counts.json = 2

\* this step is the merge of line 286
Merging == pc = "merge" /\ pc' # "merge"

MergeStep ==
    /\ Merging
         => /\ Len(merged_json') = Len(json_payloads) + Len(injected_json)
            /\ \A i \in DOMAIN json_payloads : merged_json'[i] = json_payloads[i]
            /\ \A j \in DOMAIN injected_json :
                   merged_json'[Len(json_payloads) + j] = injected_json[j]
    /\ ~Merging => merged_json' = merged_json

(* C14: the merged list is the network log followed by the json-channel
   snapshot, as they are at the merge: its length is the sum of the two
   lengths and every entry of each keeps its place within its source, so
   entries with equal payloads from the two sources are both there; no
   later step changes the list. *)
C14_MergedIsConcatenation == [][MergeStep]_vars

\* a merged list holding the same payload once from each source
C14_Witness ==
    /\ pc = "write_json"
    /\ \E i, j \in DOMAIN merged_json :
         /\ i <= Len(json_payloads)
         /\ j > Len(merged_json) - Len(injected_json)
         /\ i < j
         /\ merged_json[i].src = "network"
         /\ merged_json[j].src = "JSON.parse"
         /\ merged_json[i].body = merged_json[j].body

\* the tag under which a started decode will push, "none" when it will not
WillTag(task) ==
    IF task.res.body.parse = "fail"
    THEN "none"
    ELSE IF task.decode = "json"
         THEN "fetch"
         ELSE IF task.res.body.open /\ task.res.body.close
              THEN "fetch-text"
              ELSE "none"

Without(seq, i) == SubSeq(seq, 1, i - 1) \o SubSeq(seq, i + 1, Len(seq))

\* this step pushes the entry of a fetch call while the entry of an earlier
\* call, under the same tag, is still to come (pending is in call order)
SettledBeforeEarlier ==
    \E i \in DOMAIN pending :
    \E k \in 1 .. (i - 1) :
        /\ pending' = Without(pending, i)
        /\ pending[k] # pending[i]
        /\ WillTag(pending[i]) # "none"
        /\ WillTag(pending[k]) = WillTag(pending[i])
        /\ CAPTURE'.json # CAPTURE.json

(* C15: within the json channel, entries with the same source tag are in
   the order of the calls: of two fetch calls issued one after the other,
   the entry of the first is pushed before the entry of the second,
   whatever the order in which their bodies finish decoding. *)
C15_InvocationOrder == [][~SettledBeforeEarlier]_vars

(* C16: the harness run twice in succession against the same static page,
   the second run over the output and profile directories of the first
   (the page loaded and every read returning what it held, in both runs),
   writes
   summaries with equal counts in every channel. *)
C16_RerunEqualCounts ==
    (fixture.run = 2 /\ summary # NoSummary /\ FaithfulReads)
        => summary.counts = fixture.first.counts

\* this step is a fillText (kind "fill") or strokeText (kind "stroke") call
Drew(kind) ==
    /\ hookCalls' = hookCalls + 1
    /\ call'.hook = kind \o "Text"

\* the entries the step appended to the canvasText channel
NewCanvasText ==
    SubSeq(CAPTURE'.canvasText, Len(CAPTURE.canvasText) + 1,
           Len(CAPTURE'.canvasText))

DrawStep ==
    \A kind \in {"fill", "stroke"} :
        Drew(kind)
            => /\ call'.calls = <<call'.args>>
               /\ call'.result = call'.orig
               /\ IF captureIntact /\ Stringifies(call'.args[1])
                  THEN /\ Len(NewCanvasText) = 1
                       /\ NewCanvasText[1].kind = kind
                       /\ NewCanvasText[1].text = call'.args[1].repr
                       /\ NewCanvasText[1].x = call'.args[2]
                       /\ NewCanvasText[1].y = call'.args[3]
                  ELSE CAPTURE'.canvasText = CAPTURE.canvasText

(* C17: every fillText and strokeText call appends exactly one canvasText
   entry with the matching kind, the text as a string and the caller's x
   and y, and performs the real draw with the caller's arguments; when the
   recording fails nothing is appended and the draw still happens. *)
C17_CanvasTextRecorded == [][DrawStep]_vars

\* fillText of the number 42 at (10, 20), recorded
C17_Witness ==
    /\ call.hook = "fillText"
    /\ call.args = <<[type |-> "number", repr |-> "42"], 10, 20>>
    /\ call.calls = <<call.args>>
    /\ Len(CAPTURE.canvasText) >= 1
    /\ LET e == CAPTURE.canvasText[Len(CAPTURE.canvasText)] IN
         e.kind = "fill" /\ e.text = "42" /\ e.x = 10 /\ e.y = 20

\* a strokeText whose recording failed and whose draw happened
C17_WitnessFailedRecording ==
    /\ call.hook = "strokeText"
    /\ ~Stringifies(call.args[1])
    /\ call.calls = <<call.args>>
    /\ CAPTURE.canvasText = <<>>

\* this step is a setItem call
Wrote ==
    /\ hookCalls' = hookCalls + 1
    /\ call'.hook = "setItem"

SetItemStep ==
    /\ Wrote
         => LET k == call'.args[1]
                v == call'.args[2]
                scope == IF call'.this = "localStorage" THEN "local" ELSE "session"
                other == IF call'.this = "localStorage" THEN "session" ELSE "local"
            IN /\ call'.calls = <<call'.args>>
               /\ call'.result = call'.orig
               /\ CAPTURE'.storage[other] = CAPTURE.storage[other]
               /\ CAPTURE'.storage[scope] =
                    IF captureIntact
                    THEN [CAPTURE.storage[scope] EXCEPT ![k] = v.repr]
                    ELSE CAPTURE.storage[scope]
    /\ ~Wrote => CAPTURE'.storage = CAPTURE.storage

(* C18: every setItem call on localStorage or sessionStorage sets
   key -> String(value) in the mirror of the matching scope only (nothing
   when the recording fails), leaves the other mirror unchanged and
   performs the real write with the caller's arguments; no other step
   changes a mirror, so a mirror holds for each written key the last value
   written. *)
C18_StorageMirrored == [][SetItemStep]_vars

\* a key of sessionStorage written twice, the mirror holding the second
\* value and the local mirror nothing
C18_Witness ==
    /\ call.hook = "setItem"
    /\ call.this = "sessionStorage"
    /\ hookCalls >= 2
    /\ call.args[2].type = "number"
    /\ CAPTURE.storage["session"][call.args[1]] = "2"
    /\ \A k \in StorageKeys : CAPTURE.storage["local"][k] = "absent"

\* the source tags of the bundle contract
SourceTags ==
    {"fetch", "fetch-text", "xhr", "xhr-text", "inline", "network",
     "network-text"}

(* C19: every entry of merged_json carries a source tag from {fetch,
   fetch-text, xhr, xhr-text, inline, network, network-text}, and an
   object-shaped value the page decoded through the wrapped JSON.parse is
   in the json channel with the tag inline. *)
C19_SourceTags ==
    /\ \A i \in DOMAIN merged_json : merged_json[i].src \in SourceTags
    /\ \A i \in DOMAIN CAPTURE.json :
         CAPTURE.json[i].url = "inline" => CAPTURE.json[i].src = "inline"

\* the session ran to its end without an exception
Completed == Exited /\ exitCode = 0

\* the written artifacts of the given kinds
WrittenOf(kinds) == {a \in written : a[1] \in kinds}

(* C20: every completed session has written exactly one canvas-text
   artifact, also when no canvas text was captured, exactly two storage
   artifacts, and a summary whose fields are source_url, timestamp,
   duration_seconds and counts, the counts keyed requests, json_events,
   chart_configs, canvas_text_events, session_scoped_keys,
   page_scoped_keys. *)
C20_BundleArtifacts ==
    Completed
        => /\ Cardinality(WrittenOf({"canvas-text"})) = 1
           /\ Cardinality(WrittenOf({"storage-local", "storage-session"})) = 2
           /\ summary.written
           /\ DOMAIN summary \ {"written"} =
                {"source_url", "timestamp", "duration_seconds", "counts"}
           /\ DOMAIN summary.counts =
                {"requests", "json_events", "chart_configs",
                 "canvas_text_events", "session_scoped_keys",
                 "page_scoped_keys"}

(***************************************************************************)
(* Properties of the viewer service.                                       *)
(***************************************************************************)
\* the request was answered with a scan identifier
Answered(r) == save[r].pc = "returned"

\* two requests carry the same identity pair and the same phone
SameScan(q, r) ==
    /\ save[q].data.url_id = save[r].data.url_id
    /\ save[q].data.url_sign = save[r].data.url_sign
    /\ save[q].data.phone = save[r].data.phone

\* the request has resolved its customer
Resolved(r) == save[r].customer_id # 0

SameAnswers ==
    /\ \A q, r \in Requests :
         (Answered(q) /\ Answered(r) /\ SameScan(q, r))
             => save[q].out.scan_id = save[r].out.scan_id
    /\ \A q, r \in Requests :
         (Resolved(q) /\ Resolved(r)
            /\ to_e164(save[q].data.phone) = to_e164(save[r].data.phone))
             => save[q].customer_id = save[r].customer_id

\* a step of a request that repeats an answered one creates no row
RepeatCreatesNothing ==
    \A r \in Requests :
      (/\ save'[r] # save[r]
       /\ \E q \in Requests \ {r} :
            /\ Answered(q)
            /\ save[q].data.url_id = save'[r].data.url_id
            /\ save[q].data.url_sign = save'[r].data.url_sign
            /\ save[q].data.phone = save'[r].data.phone)
          => /\ Len(db'.customers) = Len(db.customers)
             /\ Len(db'.sessions) = Len(db.sessions)
             /\ Len(db'.scans) = Len(db.scans)

(* C21: of two save_to_supabase calls made one after the other with the
   same (url_id, url_sign) and the same phone, both answered, the second
   gets the scan identifier of the first and creates no customer, session
   or scan row; requests whose phones normalise to the same E.164 value
   resolve to the same customer. *)
C21_SaveIdempotent == [][RepeatCreatesNothing /\ SameAnswers']_vars

\* the second call was answered as a duplicate of the first
C21_Witness ==
    /\ Answered(1) /\ Answered(2)
    /\ SameScan(1, 2)
    /\ ~save[1].out.duplicate
    /\ save[2].out.duplicate
    /\ save[2].out.scan_id = save[1].out.scan_id
    /\ Len(db.scans) = 1 /\ Len(db.sessions) = 1 /\ Len(db.customers) = 1

\* two spellings of one number, two scans, one customer
C21_WitnessSpellings ==
    /\ Answered(1) /\ Answered(2)
    /\ save[1].data.phone # save[2].data.phone
    /\ save[1].phone_e164 = save[2].phone_e164
    /\ Len(db.scans) = 2
    /\ Len(db.customers) = 1

(***************************************************************************)
(* Properties of the harness, continued.                                   *)
(***************************************************************************)
(* C22: started without the URL argument (or with an empty one) the harness
   launches no browser, attempts no artifact write and no navigation, and
   once it has exited its status is nonzero. *)
C22_UsageError ==
    URL = ""
        => /\ playwright = "idle" /\ browser = "none" /\ ctx = "none"
           /\ attempted = {} /\ written = {}
           /\ navigations = 0
           /\ pc \in {"start", "exited"}
           /\ Exited => exitCode = 1

\* the harness was started without the argument and has exited
C22_Witness == URL = "" /\ Exited /\ exitCode = 1

\* this step ends a polling iteration without break: a read raised, or both
\* reads returned and the break test failed
IterationEndsUnbroken ==
    /\ pc \in {"poll_charts", "poll_json"}
    /\ pc' # "poll_json"
    /\ ~broke'

(* C23: a channel read that raises in the polling loop counts as an empty
   read: after an iteration that a raising read ended (as after one whose
   reads were both empty) charts and injected_json are empty, and a loop
   that was left without break hands no non-empty value to the writes. *)
C23_FailedReadIsEmpty ==
    [][/\ IterationEndsUnbroken => (charts' = <<>> /\ injected_json' = <<>>)
       /\ (PastLoop /\ ~broke) => (charts = <<>> /\ injected_json = <<>>)]_vars

(***************************************************************************)
(* Properties of the wrappers, continued.                                  *)
(***************************************************************************)
\* the entries of a sequence that carry one of the tags
WithTags(seq, tags) == SelectSeq(seq, LAMBDA e : e.src \in tags)

\* the xhr tag that corresponds to a fetch tag
AsXhr(e) ==
    [e EXCEPT !.src = IF e.src = "fetch" THEN "xhr" ELSE "xhr-text"]

\* what the fetch wrapper records for a response with this content-type
\* and text, fetched from url
ByFetch(url, resp) ==
    LET task == [decode |-> IF resp.ctJson THEN "json" ELSE "text",
                 res |-> [url |-> url, ctJson |-> resp.ctJson,
                          body |-> resp.text]]
        after == FetchSettled(CAPTURE, captureIntact, task).json
        new == SubSeq(after, Len(CAPTURE.json) + 1, Len(after))
        own == WithTags(new, {"fetch", "fetch-text"})
    IN [i \in DOMAIN own |-> AsXhr(own[i])]

SamePolicyStep ==
    \A r \in XhrIds, resp \in XhrResponses :
        (XhrLoaded(r, resp) /\ resp.readable /\ xhr[r].listeners = 1)
            => WithTags(NewJson, {"xhr", "xhr-text"}) = ByFetch(xhr[r].url, resp)

(* C24: for every content-type and response text, a completed request
   (sent once, its responseText readable) gets an xhr / xhr-text entry from
   the XHR wrapper exactly when the fetch wrapper records a fetch /
   fetch-text entry for a response with that content-type and text, and the
   bodies are equal. *)
C24_SameDecodePolicy == [][SamePolicyStep]_vars

\* this step recorded a decode of the XHR or of the fetch wrapper
WrapperDecoded ==
    WithTags(NewJson, {"xhr", "xhr-text", "fetch", "fetch-text"}) # <<>>

(* C25: one observation, one entry: a step in which the XHR wrapper or the
   fetch wrapper records a response it decoded adds exactly one entry to
   the json channel; its own decoding adds no second entry through the
   wrapped JSON.parse. *)
C25_OneEntryPerObservation == [][WrapperDecoded => Len(NewJson) = 1]_vars

\* this step is an invocation of the wrapped primitive `hook`
Called(hook) ==
    /\ hookCalls' = hookCalls + 1
    /\ call'.hook = hook

(* C26: the setter of window.Chart installs exactly one wrapping layer, so
   that each later construction appends exactly one entry to the charts
   channel and invokes the real constructor once. *)
C26_OneChartLayer ==
    [][/\ ChartLayers' # ChartLayers => ChartLayers' = 1
       /\ (Called("Chart") /\ captureIntact)
            => /\ Len(CAPTURE'.charts) = Len(CAPTURE.charts) + 1
               /\ call'.calls = <<call'.args>>]_vars

(* C27: every setOption call on an instance obtained from echarts.init
   appends exactly one entry to the charts channel, also after the page
   assigned window.echarts more than once and after init returned the same
   instance for two calls. *)
C27_OneEntryPerSetOption ==
    [][(Called("setOption") /\ captureIntact)
          => Len(CAPTURE'.charts) = Len(CAPTURE.charts) + 1]_vars

(***************************************************************************)
(* Properties of the network observer.                                     *)
(***************************************************************************)
\* this step is a call of on_response
Responding == responded'.n = responded.n + 1

\* what the step appended to the network log
NewPayloads ==
    SubSeq(json_payloads', Len(json_payloads) + 1, Len(json_payloads'))

\* the log is extended, and the handler's caller goes on as before
HandlerContained ==
    /\ Len(json_payloads') >= Len(json_payloads)
    /\ SubSeq(json_payloads', 1, Len(json_payloads)) = json_payloads
    /\ raised' = raised
    /\ pc' = pc

\* the value the body of the last response decodes to
DecodedBody == [type |-> responded'.decoded, of |-> responded'.body]

ObserverStep ==
    Responding
        => /\ HandlerContained
           /\ IF responded'.ctJson
              THEN /\ Len(NewPayloads) = 1
                   /\ NewPayloads[1].src = "network"
                   /\ NewPayloads[1].url = responded'.url
                   /\ NewPayloads[1].body = DecodedBody
              ELSE IF UrlSuggestsJson(responded'.url)
              THEN /\ Len(NewPayloads) = 1
                   /\ NewPayloads[1].src = "network-text"
                   /\ NewPayloads[1].url = responded'.url
                   /\ NewPayloads[1].body = DecodedBody
              ELSE NewPayloads = <<>>

(* C28: on_response appends exactly one entry per response with a JSON
   content-type (tagged network, body the decoded value) or with a URL that
   ends in .json or contains .json? (tagged network-text, body a decoded
   value), nothing for any other response; no failure leaves the handler
   or removes earlier entries. *)
C28_ObserverEntries == [][ObserverStep]_vars

ObserverStepReadable ==
    /\ Responding
         => /\ HandlerContained
            /\ IF responded'.ctJson
               THEN IF responded'.available /\ responded'.decoded # "fail"
                    THEN NewPayloads = <<[src |-> "network",
                                          url |-> responded'.url,
                                          body |-> DecodedBody]>>
                    ELSE NewPayloads = <<>>
               ELSE IF UrlSuggestsJson(responded'.url) /\ responded'.available
               THEN NewPayloads =
                      <<[src |-> "network-text", url |-> responded'.url,
                         body |-> IF responded'.decoded # "fail"
                                  THEN DecodedBody
                                  ELSE [type |-> "string",
                                        of |-> responded'.body]]>>
               ELSE NewPayloads = <<>>
    /\ ~Responding => json_payloads' = json_payloads

(* C28, amended: on_response appends exactly one entry per response that
   has a JSON content-type and a body that can be read and decodes (tagged
   network, body the decoded value), exactly one per response without a
   JSON content-type whose URL ends in .json or contains .json? and whose
   body can be read (tagged network-text, body the decoded value, or the
   text itself when it does not decode), and nothing for any other
   response; no failure leaves the handler or removes earlier entries. *)
C28_ObserverReadableEntries == [][ObserverStepReadable]_vars

\* a .json resource whose text did not decode was logged as text
C28_Witness ==
    /\ responded.n = 2
    /\ ~responded.ctJson
    /\ responded.available
    /\ responded.decoded = "fail"
    /\ Len(json_payloads) = 2
    /\ json_payloads[1].src = "network"
    /\ json_payloads[2].src = "network-text"
    /\ json_payloads[2].body.type = "string"

(***************************************************************************)
(* Properties of the bundle, continued.                                    *)
(***************************************************************************)
\* the numbered artifacts of a kind are those of the indices below n
Numbered(kind, n) ==
    WrittenOf({kind}) = {Artifact(kind, i) : i \in 0 .. n - 1}

CountsAgree ==
    summary.written
        => /\ summary.counts.json = Len(merged_json)
           /\ Numbered("xhr", summary.counts.json)
           /\ summary.counts.chartConfigs = Len(charts)
           /\ Numbered("chart", summary.counts.chartConfigs)
           /\ Artifact("storage-local", 0) \in written
           /\ summary.counts.localStorageKeys = Cardinality(ls)
           /\ Artifact("storage-session", 0) \in written
           /\ summary.counts.sessionStorageKeys = Cardinality(ss)

(* C29: the counts of a written summary agree with what the session
   persisted: counts.json is the number of xhr-NN artifacts written and the
   length of the network log plus the length of the json snapshot at the
   merge, counts.chartConfigs is the number of chart-NN artifacts, and each
   storage key count is the number of keys of the snapshot that was
   written to its file. *)
C29_CountsMatchBundle ==
    [][/\ Merging => Len(merged_json') = Len(json_payloads) + Len(injected_json)
       /\ ~Merging => merged_json' = merged_json
       /\ CountsAgree']_vars

\* a response arrived after the merge: the log is longer than what was
\* merged, written and counted
C29_Witness ==
    /\ summary.written
    /\ summary.counts.json = 1
    /\ Artifact("xhr", 0) \in written
    /\ Len(json_payloads) + Len(injected_json) = 2

\* the numbered artifacts of the session's merged events and chart entries
SessionNumbered ==
    {Artifact("xhr", i) : i \in 0 .. Len(merged_json) - 1}
    \cup {Artifact("chart", i) : i \in 0 .. Len(charts) - 1}

(* C30: after a completed session the numbered json and chart artifacts in
   the output directory are exactly those of the session's merged events and
   chart entries; none of an earlier session with more events remains. *)
C30_NoStaleNumbered ==
    Completed => WrittenOf({"xhr", "chart"}) = SessionNumbered

(***************************************************************************)
(* Properties of the viewer service, continued.                            *)
(***************************************************************************)
\* the request is over and the database answered every call it made, with
\* rows or with a conflict
Finished(r) ==
    /\ save[r].pc \in {"returned", "failed"}
    /\ save[r].out.status \in {200, 409}

\* the sessions no scan row refers to
OrphanSessions ==
    {i \in DOMAIN db.sessions :
       \A j \in DOMAIN db.scans : db.scans[j].session_id # db.sessions[i].id}

(* C31: when two save_to_supabase requests with the same phone and the same
   (url_id, url_sign) have run, interleaved in any way, there is at most one
   customer row of the normalised phone, at most one scan row of the
   identity pair, and every assessment session is referenced by a scan
   row. *)
C31_ConcurrentSavesConsistent ==
    \A q, r \in Requests :
      (q # r /\ Finished(q) /\ Finished(r) /\ SameScan(q, r))
          => /\ Cardinality(CustomersOf(save[r].phone_e164)) <= 1
             /\ Cardinality(ScansOf(save[r].data.url_id,
                                    save[r].data.url_sign)) <= 1
             /\ OrphanSessions = {}

=============================================================================
